---- MODULE Spec2Model ----
(***************************************************************************)
(* Rule-based race-programme parser of app/modules/scraping/extractors:    *)
(* HCHScraper (base dialect), CHSScraper and VSCScraper.  A scraper is     *)
(* built for one document; extract_meeting turns the document's text lines *)
(* into a Meeting.  Text is modelled as TLA+ strings, characters as        *)
(* one-character strings, and every regular expression of the source as a  *)
(* sequence of pattern items run by a backtracking matcher that follows    *)
(* Python's re semantics (leftmost match, greedy/lazy priority).           *)
(***************************************************************************)
EXTENDS Integers, Sequences, FiniteSets, TLC

VARIABLES dialect, lines, pc, meeting, raised, calls

vars == <<dialect, lines, pc, meeting, raised, calls>>

\* F applied to v: names a value the way a local variable of the code does
With(v, F(_)) == F(v)

\* F applied to two values
With2(v, w, F(_, _)) == F(v, w)

(***************************************************************************)
(* Characters                                                              *)
(***************************************************************************)

\* The characters of the modelled texts, in code-point order.
CodeOrder ==
    "\t\n !#$%&()*+,-./0123456789:;<=>?@ABCDEFGHIJKLMNOPQRSTUVWXYZ_abcdefghijklmnopqrstuvwxyz°ºÁÉÍÑÓÚáéíñóú"

CharAt(s, i) == SubSeq(s, i, i)

CharsOf(s) == {CharAt(s, i) : i \in 1..Len(s)}

Chars == CharsOf(CodeOrder)

\* ord(c): position in code-point order (only the order is used).
Ord == [c \in Chars |-> CHOOSE i \in 1..Len(CodeOrder) : CharAt(CodeOrder, i) = c]

UpperLetters == "ABCDEFGHIJKLMNOPQRSTUVWXYZÁÉÍÑÓÚ"
LowerLetters == "abcdefghijklmnopqrstuvwxyzáéíñóú"

\* str.upper() / str.lower() on one character
ToUpper ==
    [c \in Chars |->
        IF c \in CharsOf(LowerLetters)
        THEN CharAt(UpperLetters, CHOOSE i \in 1..Len(LowerLetters) : CharAt(LowerLetters, i) = c)
        ELSE c]

ToLower ==
    [c \in Chars |->
        IF c \in CharsOf(UpperLetters)
        THEN CharAt(LowerLetters, CHOOSE i \in 1..Len(UpperLetters) : CharAt(UpperLetters, i) = c)
        ELSE c]

Digit == CharsOf("0123456789")                       \* \d
Space == {" ", "\t", "\n"}                           \* \s
Word  == CharsOf(UpperLetters) \cup CharsOf(LowerLetters) \cup Digit \cup {"_", "º"}   \* \w
NotNewline == Chars \ {"\n"}                         \* .

\* int(c) for a digit character
DigitVal == [c \in Digit |-> Ord[c] - Ord["0"]]

(***************************************************************************)
(* Python str operations                                                   *)
(***************************************************************************)

\* s[from-1:].startswith(sub), 1-based position
StartsAt(s, pos, sub) ==
    /\ pos + Len(sub) - 1 <= Len(s)
    /\ SubSeq(s, pos, pos + Len(sub) - 1) = sub

\* smallest element of a non-empty set of integers
MinOf(S) == CHOOSE x \in S : \A y \in S : x <= y

\* largest element of a non-empty set of integers
MaxOf(S) == CHOOSE x \in S : \A y \in S : x >= y

\* s.find(sub, from): 1-based index of the first occurrence at or after from, 0 if none
Find(s, sub, from) ==
    LET hits == {p \in from..(Len(s) - Len(sub) + 1) : StartsAt(s, p, sub)} IN
    IF hits = {} THEN 0 ELSE MinOf(hits)

\* sub in s
Contains(s, sub) == Find(s, sub, 1) > 0

\* s.lstrip(chars)
LStripSet(s, set) ==
    LET keep == {i \in 1..Len(s) : CharAt(s, i) \notin set} IN
    IF keep = {} THEN "" ELSE SubSeq(s, MinOf(keep), Len(s))

\* s.rstrip(chars)
RStripSet(s, set) ==
    LET keep == {i \in 1..Len(s) : CharAt(s, i) \notin set} IN
    IF keep = {} THEN "" ELSE SubSeq(s, 1, MaxOf(keep))

\* s.strip(chars)
StripSet(s, set) == RStripSet(LStripSet(s, set), set)

\* s.strip()
Strip(s) == StripSet(s, Space)

RECURSIVE Replace(_, _, _)
\* s.replace(old, new), old non-empty: every occurrence, left to right
Replace(s, old, new) ==
    LET p == IF old = "" THEN 0 ELSE Find(s, old, 1) IN
    IF p = 0 THEN s
    ELSE SubSeq(s, 1, p - 1) \o new \o Replace(SubSeq(s, p + Len(old), Len(s)), old, new)

\* s.split(sep)[0]
BeforeFirst(s, sep) ==
    LET p == Find(s, sep, 1) IN IF p = 0 THEN s ELSE SubSeq(s, 1, p - 1)

\* s.split(sep, 1)[1], for s containing sep
AfterFirst(s, sep) ==
    LET p == Find(s, sep, 1) IN SubSeq(s, p + Len(sep), Len(s))

RECURSIVE Split(_, _)
\* s.split(sep)
Split(s, sep) ==
    LET p == Find(s, sep, 1) IN
    IF p = 0 THEN <<s>>
    ELSE <<SubSeq(s, 1, p - 1)>> \o Split(SubSeq(s, p + Len(sep), Len(s)), sep)

RECURSIVE Join(_, _)
\* sep.join(parts)
Join(parts, sep) ==
    IF Len(parts) = 0 THEN ""
    ELSE IF Len(parts) = 1 THEN parts[1]
    ELSE parts[1] \o sep \o Join(Tail(parts), sep)

\* s.isdigit()
IsDigitStr(s) == Len(s) > 0 /\ \A i \in 1..Len(s) : CharAt(s, i) \in Digit

RECURSIVE MapChars(_, _)
\* the string of f[c] for the characters c of s (halving keeps the evaluation shallow)
MapChars(f, s) ==
    IF Len(s) = 0 THEN ""
    ELSE IF Len(s) = 1 THEN f[s]
    ELSE MapChars(f, SubSeq(s, 1, Len(s) \div 2)) \o MapChars(f, SubSeq(s, Len(s) \div 2 + 1, Len(s)))

\* s.upper()
Upper(s) == MapChars(ToUpper, s)

\* s.lower()
Lower(s) == MapChars(ToLower, s)

RECURSIVE StrLess(_, _)
\* a < b on str: lexicographic by code point
StrLess(a, b) ==
    IF Len(b) = 0 THEN FALSE
    ELSE IF Len(a) = 0 THEN TRUE
    ELSE IF CharAt(a, 1) = CharAt(b, 1) THEN StrLess(SubSeq(a, 2, Len(a)), SubSeq(b, 2, Len(b)))
    ELSE Ord[CharAt(a, 1)] < Ord[CharAt(b, 1)]

\* re.sub(r"[^\d]", "", s)
DigitsOf(s) == MapChars([c \in Chars |-> IF c \in Digit THEN c ELSE ""], s)

RECURSIVE ParseInt(_)
\* int(s) for a string of digits
ParseInt(s) ==
    IF Len(s) = 0 THEN 0
    ELSE 10 * ParseInt(SubSeq(s, 1, Len(s) - 1)) + DigitVal[CharAt(s, Len(s))]

RECURSIVE IntStr(_)
\* str(n) for n >= 0
IntStr(n) ==
    IF n < 10 THEN CharAt("0123456789", n + 1)
    ELSE IntStr(n \div 10) \o CharAt("0123456789", (n % 10) + 1)

RECURSIVE ZeroPad(_, _)
\* f"{n:0wd}"
ZeroPad(s, w) == IF Len(s) >= w THEN s ELSE ZeroPad("0" \o s, w)

(***************************************************************************)
(* Regular expressions (Python re)                                         *)
(*                                                                         *)
(* A pattern is a sequence of items.  Quantified character classes carry   *)
(* lo/hi (hi = -1: unbounded) and lazy; groups are marked by open/close    *)
(* items; "or" holds the alternatives of a group in priority order.        *)
(***************************************************************************)

Cls(set, lo, hi)  == [k |-> "cls", set |-> set, lo |-> lo, hi |-> hi, lazy |-> FALSE]
LazyCls(set, lo, hi) == [k |-> "cls", set |-> set, lo |-> lo, hi |-> hi, lazy |-> TRUE]
One(set)   == Cls(set, 1, 1)
Opt(set)   == Cls(set, 0, 1)
Star(set)  == Cls(set, 0, -1)
Plus(set)  == Cls(set, 1, -1)
Lit(str)   == [k |-> "lit", str |-> str]
Or(res)    == [k |-> "or", res |-> res]
Open(g)    == [k |-> "open", g |-> g]
Close(g)   == [k |-> "close", g |-> g]
WordB      == [k |-> "wb"]
Bol        == [k |-> "bol"]
Eol        == [k |-> "eol"]
Look(re)   == [k |-> "look", re |-> re]

\* one alternative per literal, in order: (a|b|c)
AltLits(strs) == [k |-> "alts", strs |-> strs]

NoMatch == [ok |-> FALSE, st |-> 0, end |-> 0, caps |-> <<>>]

NoCaps == [g \in 1..4 |-> <<0, 0>>]

\* does character c belong to the class, under re.IGNORECASE when ic
InCls(c, set, ic) ==
    \/ c \in set
    \/ ic /\ c \in Chars /\ (ToLower[c] \in set \/ ToUpper[c] \in set)

\* do the characters of the literal occur at pos.., under re.IGNORECASE when ic
LitFrom(s, pos, str, ic) ==
    \A j \in 1..Len(str) :
        LET a == CharAt(s, pos + j - 1)
            b == CharAt(str, j)
        IN a = b \/ (ic /\ ToLower[a] = ToLower[b])

\* does the literal occur at pos
LitAt(s, pos, str, ic) == pos + Len(str) - 1 <= Len(s) /\ LitFrom(s, pos, str, ic)

\* how many characters from pos on belong to the class, at most hi when hi >= 0
Run(s, pos, set, ic, hi) ==
    LET last == IF hi >= 0 /\ pos + hi <= Len(s) THEN pos + hi ELSE Len(s) + 1
        stop == CHOOSE j \in pos..last :
                    /\ j = last \/ ~InCls(CharAt(s, j), set, ic)
                    /\ \A k \in pos..(j - 1) : InCls(CharAt(s, k), set, ic)
    IN stop - pos

\* \b at pos: exactly one of the neighbours is a word character
AtWordB(s, pos) ==
    LET before == pos > 1 /\ CharAt(s, pos - 1) \in Word
        after  == pos <= Len(s) /\ CharAt(s, pos) \in Word
    IN before # after

\* $ at pos: the end of the text, or just before a final newline
AtEol(s, pos) == pos = Len(s) + 1 \/ (pos = Len(s) /\ CharAt(s, pos) = "\n")

\* of the tries <<priority, result>>, the successful result of the lowest priority number
FirstOk(tries) ==
    LET good == {t \in tries : t[2].ok} IN
    IF good = {} THEN NoMatch ELSE (CHOOSE t \in good : \A u \in good : t[1] <= u[1])[2]

RECURSIVE MatchAt(_, _, _, _, _, _)
\* match items i.. of re at pos; the first match in priority order, or NoMatch
MatchAt(re, i, s, pos, caps, ic) ==
    IF i > Len(re) THEN [ok |-> TRUE, st |-> 0, end |-> pos, caps |-> caps]
    ELSE LET it == re[i] IN
         CASE it.k = "cls" ->
                \* the counts the class can take, tried from the largest (greedy) or the
                \* smallest (lazy); the first count after which the rest matches wins
                With(Run(s, pos, it.set, ic, it.hi),
                     LAMBDA run :
                         IF run < it.lo THEN NoMatch
                         ELSE With(MatchAt(re, i + 1, s, pos + (IF it.lazy THEN it.lo ELSE run),
                                           caps, ic),
                                   LAMBDA preferred :
                                       IF preferred.ok THEN preferred
                                       ELSE FirstOk({<<IF it.lazy THEN n ELSE -n,
                                                       MatchAt(re, i + 1, s, pos + n, caps, ic)>> :
                                                       n \in it.lo..run})))
           [] it.k = "lit" ->
                IF LitAt(s, pos, it.str, ic)
                THEN MatchAt(re, i + 1, s, pos + Len(it.str), caps, ic) ELSE NoMatch
           [] it.k = "alts" ->
                \* the first literal after which the rest matches
                FirstOk({<<j, IF LitAt(s, pos, it.strs[j], ic)
                              THEN MatchAt(re, i + 1, s, pos + Len(it.strs[j]), caps, ic)
                              ELSE NoMatch>> : j \in 1..Len(it.strs)})
           [] it.k = "or" ->
                \* the first alternative after which the rest matches
                LET rest == SubSeq(re, i + 1, Len(re)) IN
                FirstOk({<<j, MatchAt(it.res[j] \o rest, 1, s, pos, caps, ic)>> :
                           j \in 1..Len(it.res)})
           [] it.k = "open" ->
                MatchAt(re, i + 1, s, pos, [caps EXCEPT ![it.g] = <<pos, pos>>], ic)
           [] it.k = "close" ->
                MatchAt(re, i + 1, s, pos, [caps EXCEPT ![it.g] = <<@[1], pos>>], ic)
           [] it.k = "wb" ->
                IF AtWordB(s, pos) THEN MatchAt(re, i + 1, s, pos, caps, ic) ELSE NoMatch
           [] it.k = "bol" ->
                IF pos = 1 THEN MatchAt(re, i + 1, s, pos, caps, ic) ELSE NoMatch
           [] it.k = "eol" ->
                IF AtEol(s, pos) THEN MatchAt(re, i + 1, s, pos, caps, ic) ELSE NoMatch
           [] it.k = "look" ->
                IF MatchAt(it.re, 1, s, pos, caps, ic).ok
                THEN MatchAt(re, i + 1, s, pos, caps, ic) ELSE NoMatch

\* pattern.search(s, from): the leftmost match starting at or after from
SearchFrom(re, s, from, ic) ==
    With(MatchAt(re, 1, s, from, NoCaps, ic),
         LAMBDA here :
             IF from <= Len(s) + 1 /\ here.ok THEN [here EXCEPT !.st = from]
             ELSE FirstOk({<<st, [MatchAt(re, 1, s, st, NoCaps, ic) EXCEPT !.st = st]>> :
                             st \in (from + 1)..(Len(s) + 1)}))

\* pattern.search(s)
Search(re, s, ic) == SearchFrom(re, s, 1, ic)

\* pattern.match(s)
Match(re, s, ic) ==
    With(MatchAt(re, 1, s, 1, NoCaps, ic), LAMBDA r : IF r.ok THEN [r EXCEPT !.st = 1] ELSE NoMatch)

\* m.group(g)
Group(s, m, g) == SubSeq(s, m.caps[g][1], m.caps[g][2] - 1)

\* m.group(0)
Group0(s, m) == SubSeq(s, m.st, m.end - 1)

RECURSIVE FindAll(_, _, _, _)
\* pattern.findall(s) for a pattern without groups that never matches empty
FindAll(re, s, from, ic) ==
    With(SearchFrom(re, s, from, ic),
         LAMBDA m : IF ~m.ok THEN <<>> ELSE <<Group0(s, m)>> \o FindAll(re, s, m.end, ic))

RECURSIVE ReSplit(_, _, _, _)
\* re.split(pattern, s) for a pattern that never matches empty
ReSplit(re, s, from, ic) ==
    With(SearchFrom(re, s, from, ic),
         LAMBDA m : IF ~m.ok THEN <<SubSeq(s, from, Len(s))>>
                    ELSE <<SubSeq(s, from, m.st - 1)>> \o ReSplit(re, s, m.end, ic))

\* re.split(pattern, s, 1)[0] and re.split(pattern, s)[0]
ReSplitHead(re, s, ic) ==
    With(Search(re, s, ic), LAMBDA m : IF m.ok THEN SubSeq(s, 1, m.st - 1) ELSE s)

Digits1 == <<Plus(Digit)>>                            \* \d+

(***************************************************************************)
(* Python values                                                           *)
(***************************************************************************)

\* Optional values: None, or a one-element tuple holding the value
None == <<>>
Some(x) == <<x>>

\* str(x) for x an Optional[int]
StrOfOptInt(x) == IF x = None THEN "None" ELSE IntStr(x[1])

\* seq[a:b] with Python's 0-based half-open bounds
Slice(seq, a, b) ==
    SubSeq(seq, (IF a < 0 THEN 0 ELSE a) + 1, IF b > Len(seq) THEN Len(seq) ELSE b)

Min(a, b) == IF a < b THEN a ELSE b
Max(a, b) == IF a > b THEN a ELSE b

(***************************************************************************)
(* Class constants of HCHScraper and the overrides of CHSScraper           *)
(***************************************************************************)

Dialects == {"HCH", "CHS", "VSC"}

WEEKDAYS ==
    <<Open(1),
      AltLits(<<"Lunes", "Martes", "Miércoles", "Miercoles", "Jueves", "Viernes",
                "Sábado", "Sabado", "Domingo">>),
      Close(1)>>

\* HCH: WEEKDAYS\s+\d{1,2}\s+de\s+\w+\s+de\s+\d{4}   CHS: WEEKDAYS\s+\d{1,2}\s+\w+\s+\d{4}
R_DATE(d) ==
    IF d = "CHS"
    THEN WEEKDAYS \o <<Plus(Space), Cls(Digit, 1, 2), Plus(Space), Plus(Word), Plus(Space),
                       Cls(Digit, 4, 4)>>
    ELSE WEEKDAYS \o <<Plus(Space), Cls(Digit, 1, 2), Plus(Space), Lit("de"), Plus(Space),
                       Plus(Word), Plus(Space), Lit("de"), Plus(Space), Cls(Digit, 4, 4)>>

\* HCH: REUNION\s*N[ºo]\s*(\d+)   CHS: RN\s*(\d+)
R_REUNION(d) ==
    IF d = "CHS"
    THEN <<Lit("RN"), Star(Space), Open(1), Plus(Digit), Close(1)>>
    ELSE <<Lit("REUNION"), Star(Space), Lit("N"), One({"º", "o"}), Star(Space),
           Open(1), Plus(Digit), Close(1)>>

\* HCH: (?P<hora>\d{1,2}:\d{2})\s*aprox\.?\s*(?P<dist>[\d\.\s]+)\s*Mts\.?\s*\((?P<codigo>[\d\.,]+)\)\s*(?P<resto>.+)
\* CHS: (?P<hora>\d{1,2}:\d{2})\s*APROX\.
\* groups: hora = 1, dist = 2, codigo = 3, resto = 4
R_RACE_HEADER(d) ==
    IF d = "CHS"
    THEN <<Open(1), Cls(Digit, 1, 2), Lit(":"), Cls(Digit, 2, 2), Close(1), Star(Space),
           Lit("APROX.")>>
    ELSE <<Open(1), Cls(Digit, 1, 2), Lit(":"), Cls(Digit, 2, 2), Close(1), Star(Space),
           Lit("aprox"), Opt({"."}), Star(Space),
           Open(2), Plus(Digit \cup {"."} \cup Space), Close(2), Star(Space),
           Lit("Mts"), Opt({"."}), Star(Space),
           Lit("("), Open(3), Plus(Digit \cup {".", ","}), Close(3), Lit(")"), Star(Space),
           Open(4), Plus(NotNewline), Close(4)>>

\* Peso:\s*(\d{2,3})\s*Kilos
R_PESO == <<Lit("Peso:"), Star(Space), Open(1), Cls(Digit, 2, 3), Close(1), Star(Space), Lit("Kilos")>>

\* APUESTAS\s+DISP(?:ONIBLES)?\s*[:\-]\s*(.+)
R_APUESTAS ==
    <<Lit("APUESTAS"), Plus(Space), Lit("DISP"), Or(<< <<Lit("ONIBLES")>>, <<>> >>), Star(Space),
      One({":", "-"}), Star(Space), Open(1), Plus(NotNewline), Close(1)>>

\* PREMIO\s*[:\-]\s*(.+)
R_PREMIO_NOMBRE ==
    <<Lit("PREMIO"), Star(Space), One({":", "-"}), Star(Space), Open(1), Plus(NotNewline), Close(1)>>

\* PREMIOS\s*[:\-].*?\$([\d\.,]+).*?\$([\d\.,]+).*?\$([\d\.,]+).*?\$([\d\.,]+)   (DOTALL)
R_PREMIOS_ANY ==
    <<Lit("PREMIOS"), Star(Space), One({":", "-"})>>
    \o <<LazyCls(Chars, 0, -1), Lit("$"), Open(1), Plus(Digit \cup {".", ","}), Close(1)>>
    \o <<LazyCls(Chars, 0, -1), Lit("$"), Open(2), Plus(Digit \cup {".", ","}), Close(2)>>
    \o <<LazyCls(Chars, 0, -1), Lit("$"), Open(3), Plus(Digit \cup {".", ","}), Close(3)>>
    \o <<LazyCls(Chars, 0, -1), Lit("$"), Open(4), Plus(Digit \cup {".", ","}), Close(4)>>

\* O[pc]ci[óo]n
R_OPCION_LABEL == <<Lit("O"), One({"p", "c"}), Lit("ci"), One({"ó", "o"}), Lit("n")>>

\* keys of APUESTA_NORMALIZATION
APUESTA_KEYS ==
    {"GDOR", "GANADOR", "A 2°", "A 2º", "A SEGUNDO", "A 3°", "A 3º", "A TERCERO", "QLA", "QUINELA",
     "QLA-PLA", "QUINELA-PLACE", "EXAC", "EXACTA", "TRIF", "TRIFECTA", "SUP", "SUPERFECTA"}

APUESTA_NORMALIZATION ==
    [t \in APUESTA_KEYS |->
        CASE t \in {"GDOR", "GANADOR"} -> "Ganador"
          [] t \in {"A 2°", "A 2º", "A SEGUNDO"} -> "A Segundo"
          [] t \in {"A 3°", "A 3º", "A TERCERO"} -> "A Tercero"
          [] t \in {"QLA", "QUINELA"} -> "Quinela"
          [] t \in {"QLA-PLA", "QUINELA-PLACE"} -> "Quinela-Place"
          [] t \in {"EXAC", "EXACTA"} -> "Exacta"
          [] t \in {"TRIF", "TRIFECTA"} -> "Trifecta"
          [] t \in {"SUP", "SUPERFECTA"} -> "Superfecta"]

(***************************************************************************)
(* Header: markers, meeting number, date                                   *)
(***************************************************************************)

\* HCHScraper._to_int: the digits of s as an int, None when s has no digit
to_int(s) == IF DigitsOf(s) = "" THEN None ELSE Some(ParseInt(DigitsOf(s)))

MesNames ==
    {"enero", "febrero", "marzo", "abril", "mayo", "junio", "julio", "agosto", "septiembre",
     "octubre", "noviembre", "diciembre"}

\* the dict meses of _parse_fecha_to_iso
meses ==
    [m \in MesNames |->
        CASE m = "enero" -> 1 [] m = "febrero" -> 2 [] m = "marzo" -> 3 [] m = "abril" -> 4
          [] m = "mayo" -> 5 [] m = "junio" -> 6 [] m = "julio" -> 7 [] m = "agosto" -> 8
          [] m = "septiembre" -> 9 [] m = "octubre" -> 10 [] m = "noviembre" -> 11
          [] m = "diciembre" -> 12]

\* the conversion with meses.get(mes_txt, 1): a month word outside the table counts as January
IsoOfMatch_default_month(text, m) ==
    LET dia == ParseInt(Group(text, m, 1))
        mes_txt == Lower(Group(text, m, 2))
        ano == ParseInt(Group(text, m, 3))
    IN Some(ZeroPad(IntStr(ano), 4) \o "-"
            \o ZeroPad(IntStr(IF mes_txt \in MesNames THEN meses[mes_txt] ELSE 1), 2) \o "-"
            \o ZeroPad(IntStr(dia), 2))

\* f"{ano:04d}-{mes:02d}-{dia:02d}" when the month word is in the table, else None
IsoOfMatch(text, m) ==
    LET dia == ParseInt(Group(text, m, 1))
        mes_txt == Lower(Group(text, m, 2))
        ano == ParseInt(Group(text, m, 3))
    IN IF mes_txt \in MesNames
       THEN Some(ZeroPad(IntStr(ano), 4) \o "-" \o ZeroPad(IntStr(meses[mes_txt]), 2) \o "-"
                 \o ZeroPad(IntStr(dia), 2))
       ELSE None

\* (\d{1,2})\s+de\s+(\w+)\s+de\s+(\d{4})
R_FECHA_DE ==
    <<Open(1), Cls(Digit, 1, 2), Close(1), Plus(Space), Lit("de"), Plus(Space),
      Open(2), Plus(Word), Close(2), Plus(Space), Lit("de"), Plus(Space),
      Open(3), Cls(Digit, 4, 4), Close(3)>>

\* (\d{1,2})\s+(\w+)\s+(\d{4})
R_FECHA_PLAIN ==
    <<Open(1), Cls(Digit, 1, 2), Close(1), Plus(Space), Open(2), Plus(Word), Close(2), Plus(Space),
      Open(3), Cls(Digit, 4, 4), Close(3)>>

\* HCHScraper._parse_fecha_to_iso
HCH_parse_fecha_to_iso(fecha_text) ==
    IF fecha_text = "" THEN None
    ELSE With(Search(R_FECHA_DE, fecha_text, TRUE),
              LAMBDA m : IF m.ok THEN IsoOfMatch(fecha_text, m) ELSE None)

\* CHSScraper._parse_fecha_to_iso: the parent's conversion first, then the pattern without "de"
CHS_parse_fecha_to_iso(fecha_text) ==
    IF fecha_text = "" THEN None
    ELSE With2(HCH_parse_fecha_to_iso(fecha_text), Search(R_FECHA_PLAIN, fecha_text, TRUE),
               LAMBDA iso, m : IF iso # None THEN iso
                               ELSE IF m.ok THEN IsoOfMatch(fecha_text, m) ELSE None)

parse_fecha_to_iso(d, fecha_text) ==
    IF d = "CHS" THEN CHS_parse_fecha_to_iso(fecha_text) ELSE HCH_parse_fecha_to_iso(fecha_text)

RECURSIVE MarkersFrom(_, _, _)
\* the (idx, matched text) pairs of the lines idx.. that contain a date (idx 0-based)
MarkersFrom(d, lns, idx) ==
    IF idx >= Len(lns) THEN <<>>
    ELSE With(Search(R_DATE(d), lns[idx + 1], TRUE),
              LAMBDA m : IF m.ok THEN << <<idx, Some(Group0(lns[idx + 1], m))>> >> ELSE <<>>)
         \o MarkersFrom(d, lns, idx + 1)

\* HCHScraper._find_meeting_markers
find_meeting_markers(d, lns) ==
    With(MarkersFrom(d, lns, 0),
         LAMBDA markers : IF markers = <<>> THEN << <<0, None>> >> ELSE markers)

\* the dict {"nro_reunion": ..., "fecha": ...} of _parse_header for its joined text
HeaderOfText(d, text) ==
    With2(Search(R_DATE(d), text, TRUE), Search(R_REUNION(d), text, TRUE),
          LAMBDA fecha_m, reunion_m :
              [nro_reunion |-> IF reunion_m.ok THEN to_int(Group(text, reunion_m, 1)) ELSE None,
               fecha |-> IF fecha_m.ok THEN parse_fecha_to_iso(d, Group0(text, fecha_m)) ELSE None])

\* HCHScraper._parse_header
parse_header(d, lns, start_idx, end_idx) ==
    HeaderOfText(d, Join(Slice(lns, start_idx, end_idx), "\n"))

(***************************************************************************)
(* Race Segmenter                                                          *)
(***************************************************************************)

\* does the line contain a race header of the dialect
IsRaceHeader(d, ln) == Search(R_RACE_HEADER(d), ln, TRUE).ok

RECURSIVE HeaderIndices(_, _, _)
\* HCHScraper._split_races, first loop: the 0-based indices of the race-header lines
HeaderIndices(d, lns, i) ==
    IF i >= Len(lns) THEN <<>>
    ELSE (IF IsRaceHeader(d, lns[i + 1]) THEN <<i>> ELSE <<>>) \o HeaderIndices(d, lns, i + 1)

RECURSIVE LookbackStart(_, _, _)
\* VSCScraper._split_races, inner loop: the nearest of the up to 3 preceding lines that
\* holds an Opción label, else the header line itself
LookbackStart(lns, i, offset) ==
    IF offset > 3 THEN i
    ELSE IF i - offset >= 0 /\ Search(R_OPCION_LABEL, lns[i - offset + 1], TRUE).ok THEN i - offset
    ELSE LookbackStart(lns, i, offset + 1)

\* VSCScraper._split_races, first loop
VSCIndices(lns) ==
    With(HeaderIndices("VSC", lns, 0),
         LAMBDA hs : [j \in 1..Len(hs) |-> LookbackStart(lns, hs[j], 1)])

\* the blocks of the boundaries without the leading block of the lines before the first
BlocksOf_no_leading(lns, indices) ==
    [j \in 1..Len(indices) |->
        <<indices[j],
          Slice(lns, indices[j], IF j + 1 <= Len(indices) THEN indices[j + 1] ELSE Len(lns))>>]

\* the blocks (start, lines[start:end]) built from the boundary indices
BlocksOf(lns, indices) ==
    (IF Len(indices) > 0 /\ indices[1] > 0 THEN << <<0, Slice(lns, 0, indices[1])>> >> ELSE <<>>)
    \o [j \in 1..Len(indices) |->
           <<indices[j],
             Slice(lns, indices[j], IF j + 1 <= Len(indices) THEN indices[j + 1] ELSE Len(lns))>>]

\* HCHScraper._split_races (also CHS)
HCH_split_races(d, lns) == BlocksOf(lns, HeaderIndices(d, lns, 0))

\* VSCScraper._split_races
VSC_split_races(lns) == BlocksOf(lns, VSCIndices(lns))

split_races(d, lns) == IF d = "VSC" THEN VSC_split_races(lns) ELSE HCH_split_races(d, lns)

(***************************************************************************)
(* Participant Segmenter                                                   *)
(***************************************************************************)

\* ^\d{1,2}\s+.+\s+-\s+
R_HCH_PART_START ==
    <<Bol, Cls(Digit, 1, 2), Plus(Space), Plus(NotNewline), Plus(Space), Lit("-"), Plus(Space)>>

\* CHS: ^\s*(\d{1,2})\s+(.+?)\s+-\s+(.+?)\s+(\d{2,3})   VSC: ^\s*(\d{1,2})\s+(.+?)\s+-\s+(.+)
R_PARTICIPANT_START(d) ==
    <<Bol, Star(Space), Open(1), Cls(Digit, 1, 2), Close(1), Plus(Space),
      Open(2), LazyCls(NotNewline, 1, -1), Close(2), Plus(Space), Lit("-"), Plus(Space)>>
    \o (IF d = "CHS"
        THEN <<Open(3), LazyCls(NotNewline, 1, -1), Close(3), Plus(Space),
               Open(4), Cls(Digit, 2, 3), Close(4)>>
        ELSE <<Open(3), Plus(NotNewline), Close(3)>>)

\* HCHScraper._is_participant_start (idx 0-based)
HCH_is_participant_start(lns, idx) ==
    IF idx >= Len(lns) THEN FALSE
    ELSE With(Strip(lns[idx + 1]),
              LAMBDA line :
                  IF IsDigitStr(line)
                  THEN IF ParseInt(line) > 30 THEN FALSE
                       ELSE idx + 1 < Len(lns) /\ Contains(lns[idx + 2], " - ")
                  ELSE Match(R_HCH_PART_START, line, FALSE).ok)

\* CHSScraper._is_participant_start and VSCScraper._is_participant_start
SUB_is_participant_start(d, lns, idx) == Match(R_PARTICIPANT_START(d), lns[idx + 1], TRUE).ok

is_participant_start(d, lns, idx) ==
    IF d = "HCH" THEN HCH_is_participant_start(lns, idx) ELSE SUB_is_participant_start(d, lns, idx)

RECURSIVE GatherFrom(_, _, _, _, _)
\* the loop of _gather_participant_chunks from line i on
GatherFrom(d, lns, i, chunks, current_chunk) ==
    IF i >= Len(lns)
    THEN IF current_chunk # <<>> THEN Append(chunks, current_chunk) ELSE chunks
    ELSE IF is_participant_start(d, lns, i)
         THEN GatherFrom(d, lns, i + 1,
                         IF current_chunk # <<>> THEN Append(chunks, current_chunk) ELSE chunks,
                         <<lns[i + 1]>>)
         ELSE GatherFrom(d, lns, i + 1, chunks, Append(current_chunk, lns[i + 1]))

\* HCHScraper._gather_participant_chunks
gather_participant_chunks(d, lns) == GatherFrom(d, lns, 0, <<>>, <<>>)

(***************************************************************************)
(* Participant Parser                                                      *)
(***************************************************************************)

\* Participant(numero=..., nombre=..., jinete=..., peso=..., preparador=..., stud=...)
Participant(numero, nombre, jinete, peso, preparador, stud) ==
    [numero |-> numero, nombre |-> nombre, jinete |-> jinete, peso |-> peso,
     preparador |-> preparador, stud |-> stud]

\* [A-Za-zÁÉÍÓÚÑ]
R_LETTER ==
    <<One(CharsOf("ABCDEFGHIJKLMNOPQRSTUVWXYZ") \cup CharsOf("abcdefghijklmnopqrstuvwxyz")
          \cup CharsOf("ÁÉÍÓÚÑ"))>>

\* [int(t) for t in tokens]
IntsOf(tokens) == [j \in 1..Len(tokens) |-> ParseInt(tokens[j])]

\* hch.py:381-387: the step for a line without letters, given its digit runs
NumericStep(numbers, idx, tokens) ==
    IF tokens # <<>>
    THEN With(numbers \o IntsOf(tokens),
              LAMBDA ns : IF Len(ns) >= 3 THEN [numbers |-> ns, idx |-> idx + 1, stop |-> TRUE]
                          ELSE [numbers |-> ns, idx |-> idx + 1, stop |-> FALSE])
    ELSE [numbers |-> numbers, idx |-> idx + 1, stop |-> FALSE]

\* hch.py:376-387: one pass of the loop body on the cleaned line
NumericLine(numbers, idx, line) ==
    IF line = "" THEN [numbers |-> numbers, idx |-> idx + 1, stop |-> FALSE]
    ELSE IF Search(R_LETTER, line, FALSE).ok THEN [numbers |-> numbers, idx |-> idx, stop |-> TRUE]
    ELSE NumericStep(numbers, idx, FindAll(Digits1, line, 1, FALSE))

RECURSIVE extract_numeric_sequence(_, _, _)
\* HCHScraper._extract_numeric_sequence: <<numbers, idx>> (idx 0-based), the loop from idx on
extract_numeric_sequence(lns, idx, numbers) ==
    IF idx >= Len(lns) THEN <<numbers, idx>>
    ELSE With(NumericLine(numbers, idx, Strip(Replace(lns[idx + 1], "\t", " "))),
              LAMBDA r : IF r.stop THEN <<r.numbers, r.idx>>
                         ELSE extract_numeric_sequence(lns, r.idx, r.numbers))

\* \s{2,}
R_SPACES2 == <<Cls(Space, 2, -1)>>

\* ^(\d{1,2})\s+(.+)
R_NRO_NOMBRE ==
    <<Bol, Open(1), Cls(Digit, 1, 2), Close(1), Plus(Space), Open(2), Plus(NotNewline), Close(2)>>

\* ^[\d\-\s\*]+-(.+)
R_PERF == <<Bol, Plus(Digit \cup Space \cup {"-", "*"}), Lit("-"), Open(1), Plus(NotNewline), Close(1)>>

\* ^[\d\s\-\.]+$
R_NUMERIC_LINE == <<Bol, Plus(Digit \cup Space \cup {"-", "."}), Eol>>

RECURSIVE JockeyColumn(_, _)
\* the first column from j on that holds a hyphen, does not start with a digit and is
\* longer than 5; 0 when there is none
JockeyColumn(parts, j) ==
    IF j > Len(parts) THEN 0
    ELSE IF Contains(parts[j], "-") /\ CharAt(parts[j], 1) \notin Digit /\ Len(parts[j]) > 5 THEN j
    ELSE JockeyColumn(parts, j + 1)

\* HCHScraper._parse_participant_chunk, columnar path (lines 296-320)
HCH_columnar(parts) ==
    With(JockeyColumn(parts, 4),
         LAMBDA j :
             Participant(parts[1],
                         BeforeFirst(parts[2], " - "),
                         IF j = 0 THEN "" ELSE Strip(BeforeFirst(parts[j], "-")),
                         parts[3],
                         IF j = 0 THEN "" ELSE RStripSet(Strip(AfterFirst(parts[j], "-")), {"."}),
                         BeforeFirst(parts[Len(parts)], " - ")))

\* caballo of the multi-line path with the name line kept whole
CaballoOf_whole_line(nombre_line) == nombre_line

\* hch.py:335: the name before " - "
CaballoOf(nombre_line) ==
    IF Contains(nombre_line, " - ") THEN Strip(BeforeFirst(nombre_line, " - ")) ELSE nombre_line

\* hch.py:345-352: jinete and preparador from the line after the numbers
JineteOf(jp_line) == IF Contains(jp_line, "-") THEN Strip(BeforeFirst(jp_line, "-")) ELSE jp_line

PreparadorOf(jp_line) ==
    IF Contains(jp_line, "-") THEN RStripSet(Strip(AfterFirst(jp_line, "-")), {"."}) ELSE ""

\* hch.py:354-361: the stud from the line after the jockey line
StudOfCandidate(stud_candidate) ==
    With(Match(R_PERF, stud_candidate, FALSE),
         LAMBDA perf_match :
             IF perf_match.ok THEN Strip(Group(stud_candidate, perf_match, 1))
             ELSE IF ~Match(R_NUMERIC_LINE, stud_candidate, FALSE).ok THEN stud_candidate
             ELSE "")

\* hch.py:342-370: the fields read after the numeric sequence <<numbers, idx_param>>
HCH_after_numbers(chunk, nro, caballo, numbers, idx_param) ==
    Some(Participant(nro, caballo,
                     IF idx_param < Len(chunk) THEN JineteOf(Strip(chunk[idx_param + 1])) ELSE "",
                     IF Len(numbers) > 0 THEN IntStr(numbers[1]) ELSE "",
                     IF idx_param < Len(chunk) THEN PreparadorOf(Strip(chunk[idx_param + 1])) ELSE "",
                     IF idx_param + 1 < Len(chunk) THEN StudOfCandidate(Strip(chunk[idx_param + 2]))
                     ELSE ""))

\* HCHScraper._parse_participant_chunk, multi-line path (lines 338-370)
HCH_multiline(chunk, nro, nombre_line, idx_param0) ==
    With(extract_numeric_sequence(chunk, idx_param0, <<>>),
         LAMBDA ns : HCH_after_numbers(chunk, nro, CaballoOf(nombre_line), ns[1], ns[2]))

\* hch.py:296-336 on the stripped first line and its columns
HCH_parse_line0(chunk, line0, parts) ==
    IF Contains(line0, "   ") /\ Len(parts) >= 6 /\ IsDigitStr(parts[1])
    THEN Some(HCH_columnar(parts))
    ELSE IF IsDigitStr(line0)
         THEN IF Len(chunk) < 2 THEN None
              ELSE HCH_multiline(chunk, line0, Strip(chunk[2]), 2)
         ELSE With(Match(R_NRO_NOMBRE, line0, FALSE),
                   LAMBDA m : IF ~m.ok THEN None
                              ELSE HCH_multiline(chunk, Group(line0, m, 1),
                                                 Strip(Group(line0, m, 2)), 1))

\* HCHScraper._parse_participant_chunk: Some(Participant) or None
HCH_parse_participant_chunk(chunk) ==
    IF chunk = <<>> THEN None
    ELSE With(Strip(chunk[1]),
              LAMBDA line0 : HCH_parse_line0(chunk, line0, ReSplit(R_SPACES2, line0, 1, FALSE)))

(***************************************************************************)
(* CHS dialect: chunk parser                                               *)
(***************************************************************************)

RECURSIVE JineteLine(_, _)
\* chs.py:51-57 and vsc.py:101-107: the first line from j on that holds " - " and does not
\* start with a digit; 0 when there is none
JineteLine(chunk, j) ==
    IF j > Len(chunk) THEN 0
    ELSE IF Contains(chunk[j], " - ") /\ CharAt(chunk[j], 1) \notin Digit THEN j
    ELSE JineteLine(chunk, j + 1)

\* CHSScraper._parse_participant_chunk: Participant(...) without stud
CHS_parse_participant_chunk(chunk) ==
    With2(Strip(chunk[1]), JineteLine(chunk, 2),
          LAMBDA line0, j :
              With(Match(R_PARTICIPANT_START("CHS"), line0, TRUE),
                   LAMBDA m :
                       IF ~m.ok THEN None
                       ELSE Some([numero |-> Group(line0, m, 1),
                                  nombre |-> Strip(Group(line0, m, 2)),
                                  jinete |-> IF j = 0 THEN ""
                                             ELSE Strip(BeforeFirst(chunk[j], " - ")),
                                  peso |-> Group(line0, m, 4),
                                  preparador |-> IF j = 0 THEN ""
                                                 ELSE Strip(AfterFirst(chunk[j], " - "))])))

(***************************************************************************)
(* VSC dialect: chunk parser                                               *)
(***************************************************************************)

AZ == CharsOf("ABCDEFGHIJKLMNOPQRSTUVWXYZ")
az == CharsOf("abcdefghijklmnopqrstuvwxyz")

\* ([A-Z\.]+\s+[A-Z][a-z]+.*)\s+-\s+([A-Z\.]+\s+[A-Z][a-z]+.*)
R_JP ==
    <<Open(1), Plus(AZ \cup {"."}), Plus(Space), One(AZ), Plus(az), Star(NotNewline), Close(1),
      Plus(Space), Lit("-"), Plus(Space),
      Open(2), Plus(AZ \cup {"."}), Plus(Space), One(AZ), Plus(az), Star(NotNewline), Close(2)>>

\* ^(\d+)\s+(.+)
R_LEAD_DIGIT == <<Bol, Open(1), Plus(Digit), Close(1), Plus(Space), Open(2), Plus(NotNewline), Close(2)>>

\* \b(\d{2,3})\b
R_WEIGHT == <<WordB, Open(1), Cls(Digit, 2, 3), Close(1), WordB>>

RECURSIVE StudOf(_, _, _, _)
\* vsc.py:66-73: scanning the columns from the last to the first
StudOf(parts, j, jinete, preparador) ==
    IF j < 1 THEN ""
    ELSE LET p == parts[j]
             stud_candidate == Strip(BeforeFirst(p, " - "))
         IN IF /\ Contains(p, " - ")
               /\ \A i \in 1..Min(5, Len(p)) : CharAt(p, i) \notin Digit
               /\ stud_candidate # jinete
               /\ stud_candidate # preparador
            THEN stud_candidate
            ELSE StudOf(parts, j - 1, jinete, preparador)

\* vsc.py:40-46: the horse name of the second column
VSC_caballo(name_sire) ==
    IF Contains(name_sire, " - ") THEN Strip(BeforeFirst(name_sire, " - "))
    ELSE IF Contains(name_sire, "-") THEN Strip(BeforeFirst(name_sire, "-"))
    ELSE name_sire

\* vsc.py:59-61: a leading number and spaces cut from the jockey
VSC_jinete(jinete0) ==
    With(Match(R_LEAD_DIGIT, jinete0, FALSE),
         LAMBDA m_lead_digit : IF m_lead_digit.ok THEN Strip(Group(jinete0, m_lead_digit, 2))
                               ELSE jinete0)

\* vsc.py:63-82 once jinete and preparador are known
VSC_build(parts, caballo, remaining_text, jinete, preparador) ==
    With(Search(R_WEIGHT, remaining_text, FALSE),
         LAMBDA weight_m :
             Participant(Strip(parts[1]), caballo, jinete,
                         IF weight_m.ok THEN Group(remaining_text, weight_m, 1) ELSE "",
                         preparador,
                         StudOf(parts, Len(parts), jinete, preparador)))

\* vsc.py:50-61: jinete and preparador from the text after the first two columns
VSC_remaining(parts, caballo, remaining_text) ==
    With(Search(R_JP, remaining_text, FALSE),
         LAMBDA jp_match :
             IF jp_match.ok
             THEN VSC_build(parts, caballo, remaining_text,
                            VSC_jinete(Strip(Group(remaining_text, jp_match, 1))),
                            Strip(ReSplitHead(R_SPACES2, Strip(Group(remaining_text, jp_match, 2)),
                                              FALSE)))
             ELSE VSC_build(parts, caballo, remaining_text, "", ""))

\* VSCScraper._parse_participant_chunk, columnar path (lines 36-82)
VSC_columnar(parts) ==
    VSC_remaining(parts, VSC_caballo(Strip(parts[2])), Join(Slice(parts, 2, Len(parts)), "   "))

\* vsc.py:84-116: the fallback on the stripped first line
VSC_fallback(chunk, line0, j) ==
    With2(Match(R_PARTICIPANT_START("VSC"), line0, TRUE),
          IF Len(chunk) > 1 THEN Search(Digits1, chunk[2], FALSE) ELSE NoMatch,
          LAMBDA m, nums :
              IF ~m.ok THEN None
              ELSE Some(Participant(Group(line0, m, 1),
                                    Strip(Group(line0, m, 2)),
                                    IF j = 0 THEN "" ELSE Strip(BeforeFirst(chunk[j], " - ")),
                                    IF nums.ok THEN Group0(chunk[2], nums) ELSE "",
                                    IF j = 0 THEN "" ELSE Strip(AfterFirst(chunk[j], " - ")),
                                    "")))

\* VSCScraper._parse_participant_chunk: Some(Participant) or None
VSC_parse_participant_chunk(chunk) ==
    With2(Strip(chunk[1]), ReSplit(R_SPACES2, Strip(chunk[1]), 1, FALSE),
          LAMBDA line0, parts :
              IF Len(parts) >= 4 THEN Some(VSC_columnar(parts))
              ELSE VSC_fallback(chunk, line0, JineteLine(chunk, 2)))

\* the dialect's _parse_participant_chunk
parse_participant_chunk(d, chunk) ==
    CASE d = "HCH" -> HCH_parse_participant_chunk(chunk)
      [] d = "CHS" -> CHS_parse_participant_chunk(chunk)
      [] d = "VSC" -> VSC_parse_participant_chunk(chunk)

RECURSIVE ParseChunks(_, _)
\* [p for chunk in chunks if (p := _parse_participant_chunk(chunk))]
ParseChunks(d, chunks) ==
    IF chunks = <<>> THEN <<>>
    ELSE parse_participant_chunk(d, Head(chunks)) \o ParseChunks(d, Tail(chunks))

(***************************************************************************)
(* Race Block Parser (base dialect, also used by VSC)                      *)
(***************************************************************************)

\* Race(nro_carrera=..., hora=..., ...): the keyword arguments as given
EmptyPremios == [k \in {} |-> ""]

\* _normalize_apuesta without the lookup of lines 404-406: the cleaned token as it is
normalize_apuesta_no_lookup(token) == Upper(Replace(Strip(token), "º", "°"))

\* HCHScraper._normalize_apuesta for a non-empty token
normalize_apuesta(token) ==
    With(Upper(Replace(Strip(token), "º", "°")),
         LAMBDA cleaned : IF cleaned \in APUESTA_KEYS THEN APUESTA_NORMALIZATION[cleaned]
                          ELSE cleaned)

RECURSIVE NormalizeAll(_)
\* the loop of _extract_apuestas: empty tokens and empty results are skipped
NormalizeAll(piezas) ==
    IF piezas = <<>> THEN <<>>
    ELSE (IF Head(piezas) # "" /\ normalize_apuesta(Head(piezas)) # ""
          THEN <<normalize_apuesta(Head(piezas))>> ELSE <<>>)
         \o NormalizeAll(Tail(piezas))

\* HCHScraper._extract_apuestas
extract_apuestas(meta_text) ==
    With(Search(R_APUESTAS, meta_text, TRUE),
         LAMBDA apuestas_m :
             IF ~apuestas_m.ok THEN <<>>
             ELSE NormalizeAll(ReSplit(<<One({";", ","})>>,
                                       ReSplitHead(<<WordB, Lit("PREMIO"), WordB>>,
                                                   Group(meta_text, apuestas_m, 1), FALSE),
                                       1, FALSE)))

\* HCHScraper._extract_opcion, lines 412-413, without the [:4]
OpcionAfterLabel(line, m) == IntsOf(FindAll(Digits1, SubSeq(line, m.end, Len(line)), 1, FALSE))

RECURSIVE extract_opcion(_)
\* HCHScraper._extract_opcion: the first four integers after the first Opción label
extract_opcion(meta_lines) ==
    IF meta_lines = <<>> THEN <<>>
    ELSE With(Search(R_OPCION_LABEL, Head(meta_lines), TRUE),
              LAMBDA m : IF m.ok THEN Slice(OpcionAfterLabel(Head(meta_lines), m), 0, 4)
                         ELSE extract_opcion(Tail(meta_lines)))

\* the header search of lines 145-149 looking at the first line of the block only
FirstHeader_first_line(d, block_lines, i) ==
    IF block_lines # <<>> /\ IsRaceHeader(d, block_lines[1]) THEN 0 ELSE -1

RECURSIVE FirstHeader(_, _, _)
\* _parse_race_block, lines 145-149: the index of the header among the first 5 lines, -1 if none
FirstHeader(d, block_lines, i) ==
    IF i >= Min(5, Len(block_lines)) THEN -1
    ELSE IF IsRaceHeader(d, block_lines[i + 1]) THEN i
    ELSE FirstHeader(d, block_lines, i + 1)

RECURSIVE MetaEnd(_, _, _)
\* the index of the first participant-row start at or after idx, len(block_lines) if none
MetaEnd(d, block_lines, idx) ==
    IF idx >= Len(block_lines) \/ is_participant_start(d, block_lines, idx) THEN idx
    ELSE MetaEnd(d, block_lines, idx + 1)

\* ^(HANDICAP|CLASICO CONDICIONAL|CLASICO|CONDICIONAL)
R_TIPO == <<Bol, Open(1), AltLits(<<"HANDICAP", "CLASICO CONDICIONAL", "CLASICO", "CONDICIONAL">>), Close(1)>>

\* \b(\d+)(?:ta|da|ra|to|do|ro|ma|a)\.?\s*Serie
R_SERIE_ORDINAL ==
    <<WordB, Open(1), Plus(Digit), Close(1),
      AltLits(<<"ta", "da", "ra", "to", "do", "ro", "ma", "a">>), Opt({"."}), Star(Space), Lit("Serie")>>

AZ09 == CharsOf("ABCDEFGHIJKLMNOPQRSTUVWXYZ") \cup Digit

\* \b(Serie\s+Indice.*|Serie\s+[A-Z0-9]+.*)
R_SERIE_PLAIN ==
    <<WordB, Open(1),
      Or(<< <<Lit("Serie"), Plus(Space), Lit("Indice"), Star(NotNewline)>>,
            <<Lit("Serie"), Plus(Space), Plus(AZ09), Star(NotNewline)>> >>),
      Close(1)>>

\* \b(SERIE[- ]?[A-Z0-9]+)\b
R_SERIE_CODE == <<WordB, Open(1), Lit("SERIE"), Opt({"-", " "}), Plus(AZ09), Close(1), WordB>>

\* Indice:\s*([^\n]+?)(?=\s*$)
R_INDICE ==
    <<Lit("Indice:"), Star(Space), Open(1), LazyCls(NotNewline, 1, -1), Close(1),
      Look(<<Star(Space), Eol>>)>>

\* hch.py:171-172: the text after the tipo word
AfterTipo(tipo, resto) ==
    [tipo |-> tipo,
     resto |-> IF tipo # "" THEN Strip(SubSeq(resto, Len(tipo) + 1, Len(resto))) ELSE resto]

\* hch.py:170-172: tipo at the start of resto
TipoAt(resto) ==
    With(Match(R_TIPO, resto, TRUE),
         LAMBDA tipo_match :
             AfterTipo(IF tipo_match.ok THEN Upper(Group(resto, tipo_match, 1)) ELSE "", resto))

\* _parse_race_block, lines 165-172: tipo and the text left after it
TipoOf(resto_group) ==
    TipoAt(Strip(ReSplitHead(<<WordB, Lit("Peso:")>>, Strip(resto_group), TRUE)))

\* hch.py:182-188: no ordinal series clause
SerieOther(resto) ==
    With2(Search(R_SERIE_PLAIN, resto, TRUE), Search(R_SERIE_CODE, resto, TRUE),
          LAMBDA match_serie_plain, match_serie_code :
              IF match_serie_plain.ok
              THEN [serie |-> "", resto |-> Strip(SubSeq(resto, 1, match_serie_plain.st - 1))]
              ELSE IF match_serie_code.ok
              THEN [serie |-> "",
                    resto |-> StripSet(Replace(resto, Group(resto, match_serie_code, 1), ""),
                                       {" ", "."})]
              ELSE [serie |-> "", resto |-> resto])

\* the series step with the ordinal clause removed from the text of HANDICAP races only
SerieOf_removed_for_handicap(tipo, resto) ==
    With(Search(R_SERIE_ORDINAL, resto, TRUE),
         LAMBDA match_serie_ordinal :
             IF match_serie_ordinal.ok /\ tipo = "HANDICAP"
             THEN [serie |-> Group(resto, match_serie_ordinal, 1),
                   resto |-> Strip(Replace(resto, Strip(Group0(resto, match_serie_ordinal)), ""))]
             ELSE IF match_serie_ordinal.ok THEN [serie |-> "", resto |-> resto]
             ELSE SerieOther(resto))

\* _parse_race_block, lines 174-188: serie and the text left after the series clause
SerieOf(tipo, resto) ==
    With(Search(R_SERIE_ORDINAL, resto, TRUE),
         LAMBDA match_serie_ordinal :
             IF match_serie_ordinal.ok
             THEN [serie |-> IF tipo = "HANDICAP" THEN Group(resto, match_serie_ordinal, 1) ELSE "",
                   resto |-> Strip(Replace(resto, Strip(Group0(resto, match_serie_ordinal)), ""))]
             ELSE SerieOther(resto))

\* _parse_race_block, lines 190-197: indice and the condition text
IndiceOf(tipo, resto) ==
    With(Search(R_INDICE, resto, TRUE),
         LAMBDA match_indice :
             IF tipo = "HANDICAP" /\ match_indice.ok
             THEN [indice |-> Strip(Group(resto, match_indice, 1)),
                   resto |-> Strip(Replace(resto, Group0(resto, match_indice), ""))]
             ELSE [indice |-> "", resto |-> resto])

\* _parse_race_block, lines 218-232: premio_nombre and premios from the metadata text
PremioNombreOf(meta_text) ==
    With(Search(R_PREMIO_NOMBRE, meta_text, TRUE),
         LAMBDA premio_nom_m :
             IF premio_nom_m.ok
             THEN StripSet(ReSplitHead(<<WordB, Lit("PREMIOS"), WordB>>,
                                       Strip(Group(meta_text, premio_nom_m, 1)), FALSE),
                           {" ", "-", ":"})
             ELSE "")

PremiosOf(meta_text) ==
    With(Search(R_PREMIOS_ANY, meta_text, TRUE),
         LAMBDA premios_m :
             IF premios_m.ok
             THEN [k \in {"1o", "2o", "3o", "4o"} |->
                      StrOfOptInt(to_int(Group(meta_text, premios_m,
                                               CASE k = "1o" -> 1 [] k = "2o" -> 2
                                                 [] k = "3o" -> 3 [] k = "4o" -> 4)))]
             ELSE EmptyPremios)

\* Race(...) of hch.py:242-257 and Race(**race_dict) of chs.py:161: the keyword arguments
Race(nro_carrera, hora, distancia_m, codigo, tipo, condicion, serie, indice, peso_categoria_kg, apuestas, premio_nombre, premios, opcion, participantes) ==
    [nro_carrera |-> nro_carrera, hora |-> hora, distancia_m |-> distancia_m, codigo |-> codigo,
     tipo |-> tipo, condicion |-> condicion, serie |-> serie, indice |-> indice,
     peso_categoria_kg |-> peso_categoria_kg, apuestas |-> apuestas,
     premio_nombre |-> premio_nombre, premios |-> premios, opcion |-> opcion,
     participantes |-> participantes]

\* hch.py:213-214: peso_categoria_kg from the metadata text
PesoCategoriaOf(meta_text) ==
    With(Search(R_PESO, meta_text, TRUE),
         LAMBDA peso_m : IF peso_m.ok THEN StrOfOptInt(to_int(Group(meta_text, peso_m, 1))) ELSE "")

\* hch.py:242-257: the Race built from the header match, the condition fields, the metadata
\* and the participant rows
HCH_race(d, header_line, m, t, se, ind, all_meta_lines, meta_text, participants_section) ==
    Race("",
         Group(header_line, m, 1),
         StrOfOptInt(to_int(Group(header_line, m, 2))),
         Replace(Group(header_line, m, 3), ".", ""),
         t.tipo,
         ind.resto,
         se.serie,
         ind.indice,
         PesoCategoriaOf(meta_text),
         extract_apuestas(meta_text),
         PremioNombreOf(meta_text),
         PremiosOf(meta_text),
         extract_opcion(all_meta_lines),
         ParseChunks(d, gather_participant_chunks(d, participants_section)))

\* hch.py:165-197: tipo, then serie, then indice, each on the text the last one left
HCH_race_cond(d, header_line, m, all_meta_lines, participants_section) ==
    With(TipoOf(Group(header_line, m, 4)),
         LAMBDA t :
             With(SerieOf(t.tipo, t.resto),
                  LAMBDA se :
                      HCH_race(d, header_line, m, t, se, IndiceOf(t.tipo, se.resto),
                               all_meta_lines, Join(all_meta_lines, " "), participants_section)))

\* hch.py:153-211: the block split at its header line (header_idx) and at the first
\* participant row (idx)
HCH_race_at(d, block_lines, header_idx, idx) ==
    HCH_race_cond(d, block_lines[header_idx + 1],
                  Search(R_RACE_HEADER(d), block_lines[header_idx + 1], TRUE),
                  Slice(block_lines, 0, header_idx) \o <<block_lines[header_idx + 1]>>
                      \o Slice(block_lines, header_idx + 1, idx),
                  Slice(block_lines, idx, Len(block_lines)))

\* HCHScraper._parse_race_block (d is HCH or VSC): Some(Race) or None
HCH_parse_race_block(d, block_lines) ==
    With(FirstHeader(d, block_lines, 0),
         LAMBDA header_idx :
             IF header_idx = -1 THEN None
             ELSE Some(HCH_race_at(d, block_lines, header_idx,
                                   MetaEnd(d, block_lines, header_idx + 1))))

(***************************************************************************)
(* CHS dialect: block parser and chunk parser                              *)
(***************************************************************************)

\* OPC:\s*([\d\-\s]+)
R_OPC == <<Lit("OPC:"), Star(Space), Open(1), Plus(Digit \cup Space \cup {"-"}), Close(1)>>

\* ^\s*(?P<nro>\d+)\s+(?P<dist>\d+)(?P<resto>.+)
R_RACE_DETAILS ==
    <<Bol, Star(Space), Open(1), Plus(Digit), Close(1), Plus(Space), Open(2), Plus(Digit), Close(2),
      Open(3), Plus(NotNewline), Close(3)>>

\* \(([\d\.,]+)\)
R_CODE == <<Lit("("), Open(1), Plus(Digit \cup {".", ","}), Close(1), Lit(")")>>

\* Pr\.\s+(.+?)\s*\(
R_PR == <<Lit("Pr."), Plus(Space), Open(1), LazyCls(NotNewline, 1, -1), Close(1), Star(Space), Lit("(")>>

RECURSIVE OpcInts(_)
\* [int(x.strip()) for x in pieces if x.strip().isdigit()]
OpcInts(pieces) ==
    IF pieces = <<>> THEN <<>>
    ELSE (IF IsDigitStr(Strip(Head(pieces))) THEN <<ParseInt(Strip(Head(pieces)))>> ELSE <<>>)
         \o OpcInts(Tail(pieces))

\* chs.py:99-104: the integers of the OPC: clause of the header line
CHS_opcion(header_line) ==
    With(Search(R_OPC, header_line, FALSE),
         LAMBDA m_opc : IF m_opc.ok THEN OpcInts(Split(Strip(Group(header_line, m_opc, 1)), "-"))
                        ELSE <<>>)

RECURSIVE LastCode(_, _, _)
\* re.findall(r"\(([\d\.,]+)\)", header_line)[-1], or last when there is no further match
LastCode(header_line, from, last) ==
    With(SearchFrom(R_CODE, header_line, from, FALSE),
         LAMBDA m : IF ~m.ok THEN last
                    ELSE LastCode(header_line, m.end, Some(Group(header_line, m, 1))))

\* chs.py:121-126
CHS_tipo(header_line) ==
    With(Upper(header_line),
         LAMBDA up : IF Contains(up, "HANDICAP") THEN "HANDICAP"
                     ELSE IF Contains(up, "CONDICIONAL") THEN "CONDICIONAL"
                     ELSE IF Contains(up, "CLASICO") THEN "CLASICO"
                     ELSE "")

\* chs.py:116-119: the code of the last parenthesised number of the header line
CHS_codigo(header_line) ==
    With(LastCode(header_line, 1, None),
         LAMBDA code : IF code # None THEN Replace(code[1], ".", "") ELSE "")

\* chs.py:128-131: the prize name between "Pr." and the next parenthesis
CHS_premio_nombre(header_line) ==
    With(Search(R_PR, header_line, TRUE),
         LAMBDA m_premio : IF m_premio.ok THEN Strip(Group(header_line, m_premio, 1)) ELSE "")

\* chs.py:106-161: the Race built from the header match and the details match
CHS_race(block_lines, header_line, m_header, m_details, idx) ==
    Race(IF m_details.ok THEN Group(block_lines[2], m_details, 1) ELSE "",
         Group(header_line, m_header, 1),
         IF m_details.ok THEN Group(block_lines[2], m_details, 2) ELSE "",
         CHS_codigo(header_line),
         CHS_tipo(header_line),
         IF m_details.ok THEN Strip(Group(block_lines[2], m_details, 3)) ELSE "",
         "",
         "",
         "",
         <<>>,
         CHS_premio_nombre(header_line),
         EmptyPremios,
         CHS_opcion(header_line),
         ParseChunks("CHS",
                     gather_participant_chunks("CHS", Slice(block_lines, idx, Len(block_lines)))))

\* CHSScraper._parse_race_block: Some(Race) or None
CHS_parse_race_block(block_lines) ==
    IF block_lines = <<>> THEN None
    ELSE With(Search(R_RACE_HEADER("CHS"), block_lines[1], TRUE),
              LAMBDA m_header :
                  IF ~m_header.ok THEN None
                  ELSE Some(CHS_race(block_lines, block_lines[1], m_header,
                                     IF Len(block_lines) > 1
                                     THEN Search(R_RACE_DETAILS, block_lines[2], TRUE)
                                     ELSE NoMatch,
                                     MetaEnd("CHS", block_lines, 2))))

\* the dialect's _parse_race_block
parse_race_block(d, block_lines) ==
    IF d = "CHS" THEN CHS_parse_race_block(block_lines) ELSE HCH_parse_race_block(d, block_lines)

(***************************************************************************)
(* extract_meeting                                                         *)
(***************************************************************************)

RECURSIVE InsertByHora(_, _)
\* one step of the stable sort on key hora: r goes after every race whose hora is not greater
InsertByHora(sorted, r) ==
    IF sorted = <<>> THEN <<r>>
    ELSE IF StrLess(r.hora, Head(sorted).hora) THEN <<r>> \o sorted
    ELSE <<Head(sorted)>> \o InsertByHora(Tail(sorted), r)

RECURSIVE SortByHora(_)
\* carreras.sort(key=lambda x: x.hora): stable, keys compared as str
SortByHora(carreras) ==
    IF carreras = <<>> THEN <<>>
    ELSE InsertByHora(SortByHora(SubSeq(carreras, 1, Len(carreras) - 1)), carreras[Len(carreras)])

\* extract_meeting, lines 69-81: the body of the loop for the block (block_start, blk)
BlockStep(d, block_start, blk, range_end, acc) ==
    IF block_start >= 0 /\ block_start < range_end
    THEN With(parse_race_block(d, blk),
              LAMBDA race_data :
                  IF race_data # None
                  THEN [acc EXCEPT !.carreras = Append(@, race_data[1])]
                  ELSE With(ParseChunks(d, gather_participant_chunks(d, blk)),
                            LAMBDA parts : IF parts # <<>>
                                           THEN [acc EXCEPT !.race_1_participants = parts]
                                           ELSE acc))
    ELSE acc

RECURSIVE BlockLoop(_, _, _, _, _)
\* extract_meeting, lines 68-81: the loop over the blocks from the j-th on
BlockLoop(d, races_blocks, j, range_end, acc) ==
    IF j > Len(races_blocks) THEN acc
    ELSE BlockLoop(d, races_blocks, j + 1, range_end,
                   BlockStep(d, races_blocks[j][1], races_blocks[j][2], range_end, acc))

\* extract_meeting without the loop of lines 89-90: the races keep the numbers their
\* blocks were parsed with
Finalize_keep_parsed(carreras, race_1_participants) ==
    [i \in 1..Len(carreras) |->
        IF i = 1 /\ race_1_participants # <<>>
        THEN [carreras[i] EXCEPT !.participantes = race_1_participants]
        ELSE carreras[i]]

\* extract_meeting with the leading block's participants appended to those the first race
\* was parsed with
Finalize_append(carreras, race_1_participants) ==
    [i \in 1..Len(carreras) |->
        [(IF i = 1 THEN [carreras[i] EXCEPT !.participantes = @ \o race_1_participants]
          ELSE carreras[i])
         EXCEPT !.nro_carrera = IntStr(i)]]

\* extract_meeting, lines 86-90: attach the leading block's participants, then renumber
Finalize(carreras, race_1_participants) ==
    [i \in 1..Len(carreras) |->
        [(IF i = 1 /\ race_1_participants # <<>>
          THEN [carreras[i] EXCEPT !.participantes = race_1_participants]
          ELSE carreras[i])
         EXCEPT !.nro_carrera = IntStr(i)]]

\* Meeting(nro_reunion=str(header_data.get("nro_reunion", "")), fecha=header_data.get("fecha", ""),
\* recinto="HCH", carreras=carreras): header_data always holds both keys, so neither .get
\* falls back to its default
MeetingKwargs(header_data, carreras) ==
    [nro_reunion |-> StrOfOptInt(header_data.nro_reunion),
     fecha |-> header_data.fecha,
     recinto |-> "HCH",
     carreras |-> carreras]

\* extract_meeting with lines 86-87 run before the sort of line 84: the leading block's
\* participants go to the first race in document order
MeetingOfRange_attach_before_sort(d, lns, start_line, end_line) ==
    With(BlockLoop(d, split_races(d, lns), 1, end_line,
                   [carreras |-> <<>>, race_1_participants |-> <<>>]),
         LAMBDA acc :
             MeetingKwargs(parse_header(d, lns, Max(0, start_line - 100), Min(Len(lns), end_line + 50)),
                           Finalize(SortByHora(Finalize_keep_parsed(acc.carreras,
                                                                    acc.race_1_participants)),
                                    <<>>)))

\* extract_meeting, lines 56-97, for the first meeting's range start_line..end_line
MeetingOfRange(d, lns, start_line, end_line) ==
    With(BlockLoop(d, split_races(d, lns), 1, end_line,
                   [carreras |-> <<>>, race_1_participants |-> <<>>]),
         LAMBDA acc :
             MeetingKwargs(parse_header(d, lns, Max(0, start_line - 100), Min(Len(lns), end_line + 50)),
                           Finalize(SortByHora(acc.carreras), acc.race_1_participants)))

\* HCHScraper.extract_meeting run with the patterns and overrides of dialect d
HCH_extract_meeting(d, lns) ==
    With(find_meeting_markers(d, lns),
         LAMBDA meeting_markers :
             MeetingOfRange(d, lns, meeting_markers[1][1],
                            IF Len(meeting_markers) > 1 THEN meeting_markers[2][1] ELSE Len(lns)))

\* a subclass that returns the parent's Meeting as it is, venue code "HCH" included
SUB_extract_meeting_parent_code(d, lns) == HCH_extract_meeting(d, lns)

\* CHSScraper.extract_meeting and VSCScraper.extract_meeting: the parent's result with the
\* venue code replaced
SUB_extract_meeting(d, lns) == [HCH_extract_meeting(d, lns) EXCEPT !.recinto = d]

\* the Meeting tree scraper class d builds from the text lines lns
extract_meeting(d, lns) ==
    IF d = "HCH" THEN HCH_extract_meeting(d, lns) ELSE SUB_extract_meeting(d, lns)

(***************************************************************************)
(* pdf_models: what the DTO module accepts                                 *)
(***************************************************************************)

\* the classes pdf_models.py defines
PdfModelsNames == {"Race", "Meeting"}

\* the names hch.py:10 imports from pdf_models
ImportedNames == {"Meeting", "Race", "Participant"}

\* pdf_models.Race: numero and opcion are required, opcion holds exactly 4 items
RaceAccepts(kw) == {"numero", "opcion"} \subseteq DOMAIN kw /\ Len(kw.opcion) = 4

\* pdf_models.Meeting: recinto, fecha, reunion and carreras are required, fecha is a str
MeetingAccepts(kw) ==
    /\ {"recinto", "fecha", "reunion", "carreras"} \subseteq DOMAIN kw
    /\ kw.fecha # None

\* the exception that ends a parse building the tree m ("" when none does)
RaisedBy(m) ==
    IF ~(ImportedNames \subseteq PdfModelsNames) THEN "ImportError"
    ELSE IF \E i \in 1..Len(m.carreras) : ~RaceAccepts(m.carreras[i]) THEN "ValidationError"
    ELSE IF ~MeetingAccepts(m) THEN "ValidationError"
    ELSE ""

(***************************************************************************)
(* Documents                                                               *)
(***************************************************************************)

\* longest document built from the line library
MaxLines == 3

\* text lines as _extract_text_lines yields them: non-empty, no trailing blanks
Library ==
    {"10:00 aprox. 1 Mts. (1) Opción 3 5",
     "9:30 aprox. 2 Mts. (2) OPC: 1-2-3-4-5",
     "5 1200 M",
     "Opcion 1 2 3 4 5",
     "1 AB - C 56",
     "Lunes 1 de mayo de 2025 REUNION Nº 7"}

\* the literal scenario of the specification's testable properties
Scenario ==
    <<"Viernes 21 de Noviembre de 2025",
      "REUNION N° 12",
      "14:30 aprox. 1200 Mts. (123.456) HANDICAP 2da. Serie Peso: 56 Kilos",
      "APUESTAS DISPONIBLES: GDOR; QLA",
      "PREMIO: Clasico Otoño PREMIOS: $100.000 $50.000 $25.000 $10.000",
      "1 ALAZAN - Thunder 56",
      "A. Perez - J. Gomez",
      "Stud Andes">>

\* a second race whose header follows an Opción label line, with one participant row
OpcionBeforeHeader ==
    <<"10:00 aprox. 1 Mts. (1) Opción 3 5",
      "Opcion 1 2 3 4 5",
      "9:30 aprox. 2 Mts. (2) OPC: 1-2-3-4-5",
      "1 AB - C 56">>

\* a participant row ahead of two races whose headers stand in descending time order
RowsBeforeLateFirst ==
    <<"1 AB - C 56",
      "11:00 aprox. 1 Mts. (1) A",
      "10:00 aprox. 2 Mts. (2) B">>

\* a race header that prints no distance between "aprox." and "Mts."
NoDistance == <<"10:00 aprox. Mts. (1) A">>

\* two meetings: the second one opens with a participant row ahead of any race header
TwoMeetings ==
    <<"Lunes 1 de mayo de 2025 REUNION Nº 7",
      "10:00 aprox. 1 Mts. (1) A",
      "Martes 2 de mayo de 2025 REUNION Nº 8",
      "1 AB - C 56">>

\* a date whose month word is not a key of meses, and a date in the CHS format
UnknownMonth == <<"Lunes 1 de setiembre de 2025">>
DateWithoutDe == <<"VIERNES 21 NOVIEMBRE 2025">>

\* a race with a multi-line row and a columnar row, each with two " - " in its name text
LineageTwice ==
    <<"10:00 aprox. 1 Mts. (1) A",
      "1 AB - C - D 56",
      "2   EF - G - H   57   J. Kl - M. No   9   Stud Q - R">>

\* a race under two lines that name the venues of the HCH and VSC dialects
OtherVenue == <<"Hipodromo Chile", "Valparaiso Sporting", "10:00 aprox. 1 Mts. (1) A">>

\* a date line, 51 lines of other text, then the line with the meeting number (line 52)
LateReunion == <<"Lunes 1 de mayo de 2025">> \o [i \in 1..51 |-> "x"] \o <<"REUNION Nº 9">>

\* four race headers: an ordinal series on a CONDICIONAL race, and HANDICAP races whose
\* Indice clause follows an ordinal series, no series text, and the plain word "Serie"
SeriesClauses ==
    <<"10:00 aprox. 1 Mts. (1) CONDICIONAL 2da. Serie Machos",
      "11:00 aprox. 1 Mts. (2) HANDICAP 3ra Serie Indice: 20-10",
      "12:00 aprox. 1 Mts. (3) HANDICAP Indice: 5 Peso: 56",
      "13:00 aprox. 1 Mts. (4) HANDICAP Serie Indice: 7">>

\* a race with one participant row of four columns set apart by three spaces
FourColumns == <<"10:00 aprox. 1 Mts. (1) A", "3   AB - C   56   J. Kl - M. No">>

\* a participant row ahead of two races in descending time order, each with a row of its own
LeadingReplaces ==
    <<"2 DE - F 57",
      "11:00 aprox. 1 Mts. (1) A",
      "3 GH - I 58",
      "10:00 aprox. 2 Mts. (2) B",
      "1 AB - C 56">>

\* a date line whose day number is no day of a month
DayOutOfRange == <<"Lunes 99 de mayo de 2025">>

\* documents beside those built from the library
Samples ==
    {Scenario, OpcionBeforeHeader, RowsBeforeLateFirst, NoDistance, TwoMeetings, UnknownMonth,
     DateWithoutDe, LineageTwice, OtherVenue, LateReunion, SeriesClauses, FourColumns,
     LeadingReplaces, DayOutOfRange}

Docs == UNION {[1..n -> Library] : n \in 0..MaxLines} \cup Samples

(***************************************************************************)
(* The scraper as a state machine                                          *)
(*                                                                         *)
(* dialect, lines: the scraper class and the text lines of its document.   *)
(* pc: "ready" after construction, "done" after extract_meeting.           *)
(* meeting: the Meeting tree extract_meeting builds (the keyword arguments *)
(* it gives to Participant, Race and Meeting).                             *)
(* raised: the exception pdf_models raises for that tree, "" if none.      *)
(* calls: the extract_meeting calls of several scrapers running at once,   *)
(* each with its own locals (empty when one scraper runs alone).           *)
(***************************************************************************)

Init ==
    /\ dialect \in Dialects
    /\ lines \in Docs
    /\ pc = "ready"
    /\ meeting = None
    /\ raised = ""
    /\ calls = <<>>

Extract(d) ==
    /\ pc = "ready"
    /\ dialect = d
    /\ meeting' = extract_meeting(d, lines)
    /\ raised' = RaisedBy(meeting')
    /\ pc' = "done"
    /\ UNCHANGED <<dialect, lines, calls>>

ExtractHCH == Extract("HCH")
ExtractCHS == Extract("CHS")
ExtractVSC == Extract("VSC")

Next == ExtractHCH \/ ExtractCHS \/ ExtractVSC

Spec == Init /\ [][Next]_vars

(***************************************************************************)
(* Several scrapers at once                                                *)
(*                                                                         *)
(* Each caller builds its own scraper and runs extract_meeting; the calls  *)
(* advance one statement group at a time in any order.  A call's locals    *)
(* are the fields of its record in calls.                                  *)
(***************************************************************************)

\* number of callers parsing at the same time
MaxCalls == 2

Callers == 1..MaxCalls

\* the scraper class and document of a caller
CallInputs ==
    {<<"HCH", RowsBeforeLateFirst>>, <<"VSC", OpcionBeforeHeader>>, <<"VSC", NoDistance>>}

\* end_line of extract_meeting, line 54: the second marker's line, or the end of the document
RangeEndOf(c) ==
    IF Len(c.meeting_markers) > 1 THEN c.meeting_markers[2][1] ELSE Len(c.lines)

\* a scraper after __init__ with its text lines read, extract_meeting not yet entered;
\* alone is no field of the scraper: it records the Meeting the scraper returns when no
\* other call runs, for the comparison with result
NewCall(in) ==
    [dialect |-> in[1], lines |-> in[2], pc |-> "ready", meeting_markers |-> <<>>,
     header_data |-> None, races_blocks |-> <<>>, j |-> 1, carreras |-> <<>>,
     race_1_participants |-> <<>>, result |-> None,
     alone |-> extract_meeting(in[1], in[2])]

\* carreras and race_1_participants after a loop body, shared by every scraper as attributes
\* of the class would be
OwnLists_class_level(cs, p, acc) ==
    [q \in DOMAIN cs |->
        [cs[q] EXCEPT !.carreras = acc.carreras,
                      !.race_1_participants = acc.race_1_participants]]

\* extract_meeting, lines 61, 66 and 72, 81: carreras and race_1_participants are locals of
\* the call, so a loop body writes those of call p only
OwnLists(cs, p, acc) ==
    [cs EXCEPT ![p].carreras = acc.carreras,
               ![p].race_1_participants = acc.race_1_participants]

InitCalls ==
    /\ dialect = "HCH"
    /\ lines = <<>>
    /\ pc = "calls"
    /\ meeting = None
    /\ raised = ""
    /\ calls \in [Callers -> {NewCall(in) : in \in CallInputs}]

\* extract_meeting, line 51
FindMarkers(p) ==
    /\ calls[p].pc = "ready"
    /\ calls' = [calls EXCEPT ![p].meeting_markers = find_meeting_markers(calls[p].dialect, calls[p].lines),
                              ![p].pc = "header"]
    /\ UNCHANGED <<dialect, lines, pc, meeting, raised>>

\* extract_meeting, lines 53-59
ParseHeader(p) ==
    /\ calls[p].pc = "header"
    /\ calls' = [calls EXCEPT ![p].header_data =
                                  parse_header(calls[p].dialect, calls[p].lines,
                                               Max(0, calls[p].meeting_markers[1][1] - 100),
                                               Min(Len(calls[p].lines), RangeEndOf(calls[p]) + 50)),
                              ![p].pc = "split"]
    /\ UNCHANGED <<dialect, lines, pc, meeting, raised>>

\* extract_meeting, lines 60-66
SplitRaces(p) ==
    /\ calls[p].pc = "split"
    /\ calls' = [calls EXCEPT ![p].races_blocks = split_races(calls[p].dialect, calls[p].lines),
                              ![p].carreras = <<>>,
                              ![p].race_1_participants = <<>>,
                              ![p].j = 1,
                              ![p].pc = "loop"]
    /\ UNCHANGED <<dialect, lines, pc, meeting, raised>>

\* extract_meeting, lines 68-81: one turn of the loop
ParseBlock(p) ==
    /\ calls[p].pc = "loop"
    /\ calls[p].j <= Len(calls[p].races_blocks)
    /\ calls' = [OwnLists(calls, p,
                          BlockStep(calls[p].dialect,
                                    calls[p].races_blocks[calls[p].j][1],
                                    calls[p].races_blocks[calls[p].j][2],
                                    RangeEndOf(calls[p]),
                                    [carreras |-> calls[p].carreras,
                                     race_1_participants |-> calls[p].race_1_participants]))
                 EXCEPT ![p].j = @ + 1]
    /\ UNCHANGED <<dialect, lines, pc, meeting, raised>>

\* extract_meeting, lines 84-90, once the loop has run out
SortAndNumber(p) ==
    /\ calls[p].pc = "loop"
    /\ calls[p].j > Len(calls[p].races_blocks)
    /\ calls' = [calls EXCEPT ![p].carreras = Finalize(SortByHora(@), calls[p].race_1_participants),
                              ![p].pc = "build"]
    /\ UNCHANGED <<dialect, lines, pc, meeting, raised>>

\* extract_meeting, lines 92-97, and the venue code a subclass puts in place of "HCH"
BuildMeeting(p) ==
    /\ calls[p].pc = "build"
    /\ calls' = [calls EXCEPT ![p].result =
                                  [MeetingKwargs(calls[p].header_data, calls[p].carreras)
                                   EXCEPT !.recinto = calls[p].dialect],
                              ![p].pc = "done"]
    /\ UNCHANGED <<dialect, lines, pc, meeting, raised>>

NextCalls ==
    \E p \in Callers :
        \/ FindMarkers(p)
        \/ ParseHeader(p)
        \/ SplitRaces(p)
        \/ ParseBlock(p)
        \/ SortAndNumber(p)
        \/ BuildMeeting(p)

Interleaved == InitCalls /\ [][NextCalls]_vars

(***************************************************************************)
(* Properties                                                              *)
(***************************************************************************)

\* the races of the result and the number of them
Carreras == meeting.carreras
NCarreras == Len(meeting.carreras)

\* a start time "H:MM" or "HH:MM" as minutes after midnight
ClockMinutes(hora) == ParseInt(BeforeFirst(hora, ":")) * 60 + ParseInt(AfterFirst(hora, ":"))

\* the parse of the literal scenario by the base dialect has run
ScenarioParsed == pc = "done" /\ dialect = "HCH" /\ lines = Scenario

\* the races the block parser of the dialect reads from the document, before sort and renumbering
ParsedRaces(d, lns) ==
    BlockLoop(d, split_races(d, lns), 1, Len(lns),
              [carreras |-> <<>>, race_1_participants |-> <<>>]).carreras

\* C1: the races of the returned Meeting are in non-decreasing order of start time, the
\* times compared as clock times (hour, then minute), for every document and dialect.
C1_SortedByClockTime ==
    pc = "done" =>
        \A i \in 1..(NCarreras - 1) :
            ClockMinutes(Carreras[i].hora) <= ClockMinutes(Carreras[i + 1].hora)

\* C2: the race at position i (0-based) of the final order has number str(i+1): the
\* numbers are "1".."N" without gap or duplicate, whatever number was parsed.
C2_NumberedByPosition ==
    pc = "done" => \A i \in 1..NCarreras : Carreras[i].nro_carrera = IntStr(i)

\* C2 happens: a CHS parse of two races, one of which its block parser had numbered "5"
\* from the line after the header
C2_ParsedNumberOverridden ==
    /\ pc = "done"
    /\ dialect = "CHS"
    /\ NCarreras = 2
    /\ \E i \in 1..Len(ParsedRaces("CHS", lines)) : ParsedRaces("CHS", lines)[i].nro_carrera = "5"

\* C3: the opcion of every race has length 0 or 4, never 1, 2 or 3.
C3_OpcionLength0or4 ==
    pc = "done" => \A i \in 1..NCarreras : Len(Carreras[i].opcion) \in {0, 4}

\* C4: the opcion of every race, of every dialect, has at most 4 entries.
C4_OpcionAtMost4 ==
    pc = "done" => \A i \in 1..NCarreras : Len(Carreras[i].opcion) <= 4

\* C5: extract_meeting is total: every parse ends by returning a Meeting, none raises.
C5_NeverRaises == pc = "done" => raised = ""

\* C6: when the header window holds no meeting number and no date, the header fields of
\* the Meeting are null or the empty string, never a non-empty placeholder text.
C6_EmptyHeaderFields ==
    (/\ pc = "done"
     /\ parse_header(dialect, lines, 0, Len(lines)) = [nro_reunion |-> None, fecha |-> None])
    => (meeting.nro_reunion = "" /\ meeting.fecha = None)

\* C8: the literal scenario parsed by the base dialect has date "2025-11-21" and the
\* meeting number parsed from "12".
C8_ScenarioHeader ==
    ScenarioParsed => (meeting.fecha = Some("2025-11-21") /\ meeting.nro_reunion = "12")

\* C9: the single race of the literal scenario has exactly one participant, with number
\* "1", name "ALAZAN", jockey "A. Perez", trainer "J. Gomez" and weight "56".
C9_ScenarioParticipant ==
    ScenarioParsed =>
        /\ NCarreras = 1
        /\ Len(Carreras[1].participantes) = 1
        /\ Carreras[1].participantes[1].numero = "1"
        /\ Carreras[1].participantes[1].nombre = "ALAZAN"
        /\ Carreras[1].participantes[1].jinete = "A. Perez"
        /\ Carreras[1].participantes[1].preparador = "J. Gomez"
        /\ Carreras[1].participantes[1].peso = "56"

\* C10: the literal scenario parsed by the base dialect has exactly one race, numbered
\* "1", with time "14:30", type "HANDICAP", series "2", weight category "56", bet types
\* Ganador then Quinela, prize name "Clasico Otoño" and the four prize amounts.
C10_ScenarioRace ==
    ScenarioParsed =>
        /\ NCarreras = 1
        /\ Carreras[1].nro_carrera = "1"
        /\ Carreras[1].hora = "14:30"
        /\ Carreras[1].tipo = "HANDICAP"
        /\ Carreras[1].serie = "2"
        /\ Carreras[1].peso_categoria_kg = "56"
        /\ Carreras[1].apuestas = <<"Ganador", "Quinela">>
        /\ Carreras[1].premio_nombre = "Clasico Otoño"
        /\ DOMAIN Carreras[1].premios = {"1o", "2o", "3o", "4o"}
        /\ Carreras[1].premios["1o"] = "100000"
        /\ Carreras[1].premios["2o"] = "50000"
        /\ Carreras[1].premios["3o"] = "25000"
        /\ Carreras[1].premios["4o"] = "10000"

\* C10 happens: the scenario has been parsed by the base dialect into one race
C10_ScenarioRaceBuilt == ScenarioParsed /\ NCarreras = 1 /\ Carreras[1].hora = "14:30"

\* the blocks of the document, and the first line index outside the first meeting
\* F applied to the value of v, found once whatever the number of uses F makes of it
Once(v, F(_)) == CHOOSE r \in {F(x) : x \in {v}} : TRUE

Blocks == split_races(dialect, lines)
RangeEnd ==
    Once(find_meeting_markers(dialect, lines),
         LAMBDA mk : IF Len(mk) > 1 THEN mk[2][1] ELSE Len(lines))

RECURSIVE ParsesOf(_)
\* what the block parser returns for each of the blocks
ParsesOf(blocks) ==
    IF blocks = <<>> THEN <<>>
    ELSE <<parse_race_block(dialect, Head(blocks)[2])>> \o ParsesOf(Tail(blocks))

\* the blocks starting before line e in which the block parser finds a header / finds none
HeadedIn(blocks, parses, e) == {j \in 1..Len(blocks) : blocks[j][1] < e /\ parses[j] # None}
HeadlessIn(blocks, parses, e) == {j \in 1..Len(blocks) : blocks[j][1] < e /\ parses[j] = None}

\* the same for the blocks of the document and the range of its first meeting
Headed == Once(Blocks, LAMBDA b : Once(ParsesOf(b), LAMBDA ps : HeadedIn(b, ps, RangeEnd)))
Headless == Once(Blocks, LAMBDA b : Once(ParsesOf(b), LAMBDA ps : HeadlessIn(b, ps, RangeEnd)))

\* the participants parsed from the rows of block j
RowsIn(blocks, j) == ParseChunks(dialect, gather_participant_chunks(dialect, blocks[j][2]))
RowsOf(j) == RowsIn(Blocks, j)

\* the races of the result are those of the headed blocks; rows of a headless block are
\* parsed only in block 1 at line 0 and reach race 1 of the result
HeadlessRule(blocks, parses, headed, headless) ==
    /\ NCarreras = Cardinality(headed)
    /\ \A j \in headless : RowsIn(blocks, j) # <<>> => (j = 1 /\ blocks[j][1] = 0)
    /\ \A i \in 1..NCarreras :
          \/ \E j \in headed : Carreras[i].participantes = parses[j][1].participantes
          \/ (i = 1 /\ 1 \in headless /\ Carreras[i].participantes = RowsIn(blocks, 1))

LeadingRows ==
    Once(Blocks,
         LAMBDA b : IF b # <<>> /\ b[1][1] < RangeEnd /\ parse_race_block(dialect, b[1][2]) = None
                    THEN RowsIn(b, 1) ELSE <<>>)

\* the races of the first meeting as parsed, in the order the sort leaves them
SortedParsed ==
    SortByHora(BlockLoop(dialect, Blocks, 1, RangeEnd,
                         [carreras |-> <<>>, race_1_participants |-> <<>>]).carreras)

RaceOf(j) == parse_race_block(dialect, Blocks[j][2])[1]
TextOf(j) == Upper(Join(Blocks[j][2], " "))

\* the fields of a race that hold text
TextFields ==
    {"nro_carrera", "hora", "distancia_m", "codigo", "tipo", "condicion", "serie", "indice",
     "peso_categoria_kg", "premio_nombre"}

\* a metadata field whose label does not occur in the block's text has its empty default
DefaultsWhenAbsent(r, text) ==
    /\ ~Contains(text, "PESO:") => r.peso_categoria_kg = ""
    /\ (~Contains(text, "PREMIO") /\ ~Contains(text, "PR.")) => r.premio_nombre = ""
    /\ ~Contains(text, "SERIE") => r.serie = ""
    /\ ~Contains(text, "INDICE") => r.indice = ""
    /\ (\A w \in {"HANDICAP", "CLASICO", "CONDICIONAL"} : ~Contains(text, w)) => r.tipo = ""
    /\ ~Contains(text, "PREMIOS") => r.premios = EmptyPremios
    /\ (\A w \in {"OPCI", "OCCI", "OPC:"} : ~Contains(text, w)) => r.opcion = <<>>
    /\ ~Contains(text, "APUESTAS") => r.apuestas = <<>>
    /\ ~Contains(text, "(") => r.codigo = ""

\* no text field of the race is the text of a null
NoNullText(r) ==
    /\ \A f \in TextFields : r[f] # "None"
    /\ \A k \in DOMAIN r.premios : r.premios[k] # "None"
    /\ \A k \in 1..Len(r.apuestas) : r.apuestas[k] # "None"

\* every race of the output is the race of a headed block, renumbered, with its own or
\* the leading block's participants
FromBlocks ==
    \A i \in 1..NCarreras :
        \E j \in Headed :
            [Carreras[i] EXCEPT !.nro_carrera = "", !.participantes = <<>>]
                = [RaceOf(j) EXCEPT !.nro_carrera = "", !.participantes = <<>>]

\* C13 (first half): a field not found in the block's text takes its empty default.
C13_DefaultsWhenAbsent ==
    pc = "done" => (FromBlocks /\ \A j \in Headed : DefaultsWhenAbsent(RaceOf(j), TextOf(j)))

\* C13: every metadata field not found in the block's text takes its empty default (empty
\* string, empty mapping, empty sequence), and no field of a race is null or the text of
\* a null.
C13_EmptyDefaults ==
    pc = "done" =>
        /\ FromBlocks
        /\ \A j \in Headed : DefaultsWhenAbsent(RaceOf(j), TextOf(j))
        /\ \A i \in 1..NCarreras : NoNullText(Carreras[i])

\* the block boundaries _split_races computes, and the lines that match the header pattern
Boundaries == IF dialect = "VSC" THEN VSCIndices(lines) ELSE HeaderIndices(dialect, lines, 0)
HeaderLines == {i \in 1..Len(lines) : IsRaceHeader(dialect, lines[i])}

\* C14: _split_races produces exactly one block boundary per line matching the race-header
\* pattern, the boundaries are strictly increasing and no block is empty, in every dialect.
C14_BoundariesIncrease ==
    pc = "done" =>
        /\ Len(Boundaries) = Cardinality(HeaderLines)
        /\ \A k \in 1..(Len(Boundaries) - 1) : Boundaries[k] < Boundaries[k + 1]
        /\ \A j \in 1..Len(Blocks) : Blocks[j][2] # <<>>

\* the meeting markers of the document
Markers == find_meeting_markers(dialect, lines)

\* C15: only the first meeting is processed: the markers are a non-empty list in line
\* order; with a second marker at line e the races are those of the lines before e alone
\* (no header at or after e yields a race, no line at or after e gives metadata or
\* participants to a race); with fewer than two markers the whole document is in range.
C15_FirstMeetingOnly ==
    pc = "done" =>
        /\ Len(Markers) >= 1
        /\ \A k \in 1..(Len(Markers) - 1) : Markers[k][1] < Markers[k + 1][1]
        /\ Len(Markers) < 2 => RangeEnd = Len(lines)
        /\ Len(Markers) >= 2 =>
              Carreras = extract_meeting(dialect, Slice(lines, 0, Markers[2][1])).carreras

\* the text of the header window, the date text matched in it and its words
HeaderText ==
    Once(Markers,
         LAMBDA mk : Join(Slice(lines, Max(0, mk[1][1] - 100),
                                Min(Len(lines), (IF Len(mk) > 1 THEN mk[2][1] ELSE Len(lines)) + 50)),
                          "\n"))
DateMatch == Once(HeaderText, LAMBDA text : Search(R_DATE(dialect), text, TRUE))
WordsOf(text, m) == IF m.ok THEN ReSplit(<<Plus(Space)>>, Group0(text, m), 1, FALSE) ELSE <<>>
DateWords == WordsOf(HeaderText, DateMatch)

\* f is YYYY-MM-DD with the day, the year and the table value of the month word of words
IsoFrom(f, words) ==
    /\ Len(f) = 10
    /\ SubSeq(f, 5, 5) = "-" /\ SubSeq(f, 8, 8) = "-"
    /\ IsDigitStr(SubSeq(f, 1, 4)) /\ IsDigitStr(SubSeq(f, 6, 7)) /\ IsDigitStr(SubSeq(f, 9, 10))
    /\ \E k \in 1..Len(words) :
          /\ Lower(words[k]) \in MesNames
          /\ meses[Lower(words[k])] = ParseInt(SubSeq(f, 6, 7))
    /\ \E k \in 1..Len(words) :
          IsDigitStr(words[k]) /\ Len(words[k]) <= 2 /\ ParseInt(words[k]) = ParseInt(SubSeq(f, 9, 10))
    /\ \E k \in 1..Len(words) :
          IsDigitStr(words[k]) /\ Len(words[k]) = 4 /\ ParseInt(words[k]) = ParseInt(SubSeq(f, 1, 4))

\* the date fecha is null or the conversion of the words of the date match m; it is null
\* when m is no match or no word is a month of the table
FailsClosed(fecha, m, words) ==
    /\ ~m.ok => fecha = None
    /\ (m.ok /\ \A k \in 1..Len(words) : Lower(words[k]) \notin MesNames) => fecha = None
    /\ fecha # None => (m.ok /\ IsoFrom(fecha[1], words))

\* C16: date conversion fails closed in every dialect: the date of the Meeting is null, or
\* the YYYY-MM-DD of the day, month-table value and year of the date text matched in the
\* header window; it is null when no date text is found or its month word is not in the
\* table.
C16_DateFailsClosed ==
    pc = "done" =>
        Once(HeaderText,
             LAMBDA text :
                 Once(Search(R_DATE(dialect), text, TRUE),
                      LAMBDA m : Once(WordsOf(text, m),
                                      LAMBDA words : FailsClosed(meeting.fecha, m, words))))

\* C16 happens: a date text is matched, its month word "setiembre" is not in the table, and
\* the date is null
C16_UnknownMonthIsNull ==
    /\ pc = "done"
    /\ lines = UnknownMonth
    /\ DateMatch.ok
    /\ meeting.fecha = None

\* the calls that have returned
Returned == {p \in Callers : calls[p].pc = "done"}

\* C17: extract_meeting calls of several scrapers, on documents of the same or of different
\* dialects, interleaved in any order: every call that returns, returns the Meeting the same
\* scraper returns when it runs alone.
C17_InterleavedAsAlone ==
    \A p \in Returned : calls[p].result = calls[p].alone

\* a call has returned a Meeting with races while a call of another dialect on another
\* document is in the middle of its loop over the blocks, a race already collected
C17_ReturnedDuringOtherLoop ==
    \E p \in Returned, q \in Callers :
        /\ calls[p].result.carreras # <<>>
        /\ calls[q].pc = "loop"
        /\ calls[q].j > 1
        /\ calls[q].j <= Len(calls[q].races_blocks)
        /\ calls[q].carreras # <<>>
        /\ calls[q].dialect # calls[p].dialect
        /\ calls[q].lines # calls[p].lines

RECURSIVE ChunkOffsets(_, _)
\* the indexes, in the list the chunks were gathered from, at which the chunks begin, when
\* the first of them begins at index from
ChunkOffsets(chunks, from) ==
    IF chunks = <<>> THEN {}
    ELSE {from} \cup ChunkOffsets(Tail(chunks), from + Len(Head(chunks)))

RECURSIVE Flatten(_)
\* the lines of the chunks, one after the other
Flatten(chunks) == IF chunks = <<>> THEN <<>> ELSE Head(chunks) \o Flatten(Tail(chunks))

\* the indexes of the participant-row start lines of the list lns
StartsOf(lns) == {i \in 0..(Len(lns) - 1) : is_participant_start(dialect, lns, i)}

\* the chunks of lns begin at the start lines of lns and nowhere else, and hold the lines
\* from the first start line on
ChunkedAtStarts(lns, chunks) ==
    /\ Len(chunks) = Cardinality(StartsOf(lns))
    /\ \E from \in 0..Len(lns) :
          /\ ChunkOffsets(chunks, from) = StartsOf(lns)
          /\ Flatten(chunks) = Slice(lns, from, Len(lns))

\* C18: for every line list _gather_participant_chunks is given, the leading block and every
\* other headerless block included: each chunk begins with a participant-row start line,
\* each start line begins exactly one chunk, and the other lines follow the nearest start
\* line before them.
C18_ChunksBeginAtStarts ==
    pc = "done" =>
        \A j \in Headless :
            ChunkedAtStarts(Blocks[j][2], gather_participant_chunks(dialect, Blocks[j][2]))

\* the participants of a list
RowSet(rows) == Once(rows, LAMBDA rs : {rs[k] : k \in 1..Len(rs)})

\* the participants _parse_participant_chunk produces for block j: those of its race, or
\* those read from its rows when it has no header
ProducedIn(blocks, parses, j) ==
    IF parses[j] # None THEN RowSet(parses[j][1].participantes) ELSE RowSet(RowsIn(blocks, j))

\* the participants _parse_participant_chunk produces for the document: those of every
\* block of the first meeting, and those of the races of the result
AllParticipants ==
    UNION {RowSet(Carreras[i].participantes) : i \in 1..NCarreras}
    \cup Once(Blocks,
              LAMBDA blocks :
                  Once(ParsesOf(blocks),
                       LAMBDA parses :
                           Once(RangeEnd,
                                LAMBDA e : UNION {ProducedIn(blocks, parses, j) :
                                                  j \in {k \in 1..Len(blocks) : blocks[k][1] < e}})))

\* the names of the participants of race i, in order
NamesOf(i) == [k \in 1..Len(Carreras[i].participantes) |-> Carreras[i].participantes[k].nombre]

\* C19: no participant produced by any dialect's _parse_participant_chunk, by the columnar
\* path or by the multi-line one, has a name that contains the " - " separator.
C19_NameWithoutSeparator ==
    pc = "done" => \A part \in AllParticipants : ~Contains(part.nombre, " - ")

\* C19 happens: rows whose name text holds " - " twice, one multi-line and one columnar,
\* are parsed and only the text before the first separator is kept
C19_LineageDropped ==
    /\ pc = "done"
    /\ lines = LineageTwice
    /\ NCarreras = 1
    /\ NamesOf(1) = <<"AB", "EF">>

\* two digits, a colon, two digits
IsHHMM(hora) ==
    /\ Len(hora) = 5
    /\ IsDigitStr(SubSeq(hora, 1, 2))
    /\ SubSeq(hora, 3, 3) = ":"
    /\ IsDigitStr(SubSeq(hora, 4, 5))

\* C20: every race of the result has a time of the form HH:MM, exactly two hour digits, a
\* colon and two minute digits, whatever header line the dialect's pattern accepted.
C20_HoraIsHHMM ==
    pc = "done" => \A i \in 1..NCarreras : IsHHMM(Carreras[i].hora)

\* C21: the venue code of the returned Meeting is the code of the dialect that ran, "HCH",
\* "CHS" or "VSC", whatever the text of the document says.
C21_VenueIsDialect ==
    pc = "done" => (meeting.recinto = dialect /\ meeting.recinto \in {"HCH", "CHS", "VSC"})

\* C21 happens: the CHS dialect has parsed a document that names the two other venues
C21_OtherVenueNamed ==
    /\ pc = "done"
    /\ dialect = "CHS"
    /\ lines = OtherVenue
    /\ NCarreras = 1
    /\ meeting.recinto = "CHS"

\* the header read from the lines s-100 .. s+49 around the first marker's line s
WindowHeader ==
    Once(Markers,
         LAMBDA mk : parse_header(dialect, lines, Max(0, mk[1][1] - 100),
                                  Min(Len(lines), mk[1][1] + 50)))

\* C22: the meeting number and the date come only from the lines whose index lies in
\* [max(0, s-100), min(len, s+50)), s the line of the first marker; a number or date on a
\* line more than 50 lines after the first marker is not used.
C22_HeaderFromWindow ==
    pc = "done" =>
        Once(WindowHeader,
             LAMBDA h : meeting.nro_reunion = StrOfOptInt(h.nro_reunion) /\ meeting.fecha = h.fecha)

\* tipo and the text after it in the header line of a block of the base block parser
HeaderRestOf(blk) ==
    Once(blk[FirstHeader(dialect, blk, 0) + 1],
         LAMBDA line :
             Once(Search(R_RACE_HEADER(dialect), line, TRUE),
                  LAMBDA m : Once(Group(line, m, 4), LAMBDA rest : TipoOf(rest))))

\* an ordinal series clause found in the text t.resto is not part of the race's condition
OrdinalRemoved(t, race) ==
    Once(t.resto,
         LAMBDA resto :
             Once(Search(R_SERIE_ORDINAL, resto, TRUE),
                  LAMBDA om :
                      om.ok => Once(Strip(Group0(resto, om)),
                                    LAMBDA clause : ~Contains(race.condicion, clause))))

\* serie and indice are empty unless tipo is HANDICAP
HandicapOnly(race) ==
    /\ race.serie # "" => race.tipo = "HANDICAP"
    /\ race.indice # "" => race.tipo = "HANDICAP"

\* C23: in every dialect serie and indice of a race are non-empty only if its tipo is
\* "HANDICAP"; in the base block parser an ordinal series clause found in the header's
\* remaining text is removed from condicion whatever the tipo is.
C23_SeriesOnlyForHandicap ==
    pc = "done" =>
        /\ \A i \in 1..NCarreras : HandicapOnly(Carreras[i])
        /\ Once(Blocks,
                LAMBDA blocks :
                    Once(ParsesOf(blocks),
                         LAMBDA parses :
                             \A j \in 1..Len(blocks) :
                                 parses[j] # None =>
                                     /\ HandicapOnly(parses[j][1])
                                     /\ dialect # "CHS" =>
                                            Once(HeaderRestOf(blocks[j][2]),
                                                 LAMBDA t : OrdinalRemoved(t, parses[j][1]))))

\* C23 happens: the CONDICIONAL race with "2da. Serie" has no serie and the condition
\* "Machos", the HANDICAP race with "3ra Serie" has serie "3"
C23_SeriesDroppedFromCondition ==
    /\ pc = "done"
    /\ dialect = "HCH"
    /\ lines = SeriesClauses
    /\ NCarreras = 4
    /\ Carreras[1].tipo = "CONDICIONAL" /\ Carreras[1].serie = "" /\ Carreras[1].condicion = "Machos"
    /\ Carreras[2].tipo = "HANDICAP" /\ Carreras[2].serie = "3"

\* the "Indice: X" clause of the text t.resto of a HANDICAP header is the race's indice
\* and is not part of its condition
IndexClauseTaken(t, race) ==
    t.tipo = "HANDICAP" =>
        Once(t.resto,
             LAMBDA resto :
                 Once(Search(R_INDICE, resto, TRUE),
                      LAMBDA im :
                          im.ok => /\ race.indice = Strip(Group(resto, im, 1))
                                   /\ ~Contains(race.condicion, "Indice:")))

\* C24: in the base block parser every HANDICAP race whose header text, after the type and
\* before "Peso:", holds an "Indice: X" clause has indice X and a condition without the
\* clause, whether an ordinal series, a plain "Serie" word or nothing precedes the clause.
C24_IndexClauseExtracted ==
    (pc = "done" /\ dialect # "CHS") =>
        Once(Blocks,
             LAMBDA blocks :
                 Once(ParsesOf(blocks),
                      LAMBDA parses :
                          \A j \in 1..Len(blocks) :
                              parses[j] # None =>
                                  Once(HeaderRestOf(blocks[j][2]),
                                       LAMBDA t : IndexClauseTaken(t, parses[j][1]))))

\* the multi-line fallback of the base and the VSC chunk parser on a chunk
MultiLine(d, chunk) ==
    IF d = "HCH" THEN HCH_parse_line0(chunk, Strip(chunk[1]), <<>>)
    ELSE VSC_fallback(chunk, Strip(chunk[1]), JineteLine(chunk, 2))

\* the columnar path on four or more columns with a numeric first column, the fallback
\* on every other chunk
ColumnarRule(d, chunk) ==
    Once(ReSplit(R_SPACES2, Strip(chunk[1]), 1, FALSE),
         LAMBDA parts :
             Once(parse_participant_chunk(d, chunk),
                  LAMBDA r :
                      IF Len(parts) >= 4 /\ IsDigitStr(parts[1])
                      THEN /\ r # None
                           /\ r[1].numero = parts[1]
                           /\ r[1].nombre = Strip(BeforeFirst(parts[2], " - "))
                           /\ r[1].peso = parts[3]
                      ELSE r = MultiLine(d, chunk)))

\* C25: in the base and the VSC chunk parser a chunk whose first line, split on runs of two
\* or more spaces, has at least 4 columns and a numeric first column is parsed by the
\* columnar path (number, name and weight from the fixed columns), and every other chunk
\* by the multi-line fallback.
C25_ColumnarFromFourColumns ==
    (pc = "done" /\ dialect # "CHS") =>
        Once(Blocks,
             LAMBDA blocks :
                 \A j \in 1..Len(blocks) :
                     Once(gather_participant_chunks(dialect, blocks[j][2]),
                          LAMBDA chunks :
                              \A k \in 1..Len(chunks) : ColumnarRule(dialect, chunks[k])))

\* the date text with the alternate spelling "setiembre" converts as the same text with
\* "septiembre" does, and a month word of the table gives its number
AlternateAsCanonical(d, fecha, fecha_text, words) ==
    /\ Contains(Lower(fecha_text), "setiembre") =>
           /\ fecha # None
           /\ fecha = parse_fecha_to_iso(d, Replace(Lower(fecha_text), "setiembre", "septiembre"))
    /\ \A k \in 1..Len(words) :
           Lower(words[k]) \in MesNames =>
               /\ fecha # None
               /\ ParseInt(SubSeq(fecha[1], 6, 7)) = meses[Lower(words[k])]

\* C26: the month word of the date text is looked up case-insensitively in the table of the
\* 12 month names, which also accepts an alternate spelling of a month: in the HCH and in
\* the CHS dialect a date written with the alternate spelling gives the same ISO date as
\* the canonical spelling.
C26_AlternateSpellingConverts ==
    pc = "done" =>
        Once(HeaderText,
             LAMBDA text :
                 Once(Search(R_DATE(dialect), text, TRUE),
                      LAMBDA m :
                          m.ok => Once(WordsOf(text, m),
                                       LAMBDA words :
                                           AlternateAsCanonical(dialect, meeting.fecha,
                                                                Group0(text, m), words))))

\* the lines before the meeting end that match the dialect's race-header pattern
HeadersInRange == Once(RangeEnd, LAMBDA e : {i \in HeaderLines : i - 1 < e})

\* C27: in every dialect the number of races of the output equals the number of lines that
\* match the race-header pattern and lie before the meeting end (the second marker's line,
\* or the end of the document): each such line yields one race, none is merged into
\* another race's block.
C27_OneRacePerHeader ==
    pc = "done" => NCarreras = Cardinality(HeadersInRange)

RECURSIVE BlockLines(_)
\* the lines of the blocks, one block after the other
BlockLines(blocks) ==
    IF blocks = <<>> THEN <<>> ELSE Head(blocks)[2] \o BlockLines(Tail(blocks))

\* the blocks, in order, hold the lines lns, each block starting where the one before ends
Partition(lns, blocks) ==
    /\ BlockLines(blocks) = lns
    /\ \A j \in 1..Len(blocks) : blocks[j][1] = Len(BlockLines(SubSeq(blocks, 1, j - 1)))

\* C28: when at least one line matches the race-header pattern, the blocks of _split_races
\* (the leading block included), concatenated in order, are the input lines, every line in
\* exactly one block, in the base splitter and in the VSC splitter with lookback; when no
\* line matches there is no block at all.
C28_BlocksPartitionLines ==
    pc = "done" =>
        Once(Blocks,
             LAMBDA blocks : IF HeaderLines = {} THEN blocks = <<>> ELSE Partition(lines, blocks))

\* C28 happens: the VSC splitter moved the boundary of the header on the third line back to
\* the Opción label on the second, after a leading block of one line
C28_LeadingBlockAndLookback ==
    /\ pc = "done"
    /\ dialect = "VSC"
    /\ Len(lines) = 3
    /\ HeaderLines = {3}
    /\ Len(Blocks) = 2
    /\ Blocks[1] = <<0, SubSeq(lines, 1, 1)>>
    /\ Blocks[2] = <<1, SubSeq(lines, 2, 3)>>

\* race 1 of the output holds the participants rows and nothing else, every other race the
\* participants its own block was parsed with
ReplacesRaceOne(rows, parsed) ==
    /\ Carreras[1].nro_carrera = "1"
    /\ Carreras[1].participantes = rows
    /\ Len(parsed) = NCarreras
    /\ \A i \in 2..NCarreras : Carreras[i].participantes = parsed[i].participantes

WellFormedDate(f) ==
    /\ Len(f) = 10
    /\ SubSeq(f, 5, 5) = "-" /\ SubSeq(f, 8, 8) = "-"
    /\ IsDigitStr(SubSeq(f, 1, 4)) /\ IsDigitStr(SubSeq(f, 6, 7)) /\ IsDigitStr(SubSeq(f, 9, 10))
    /\ ParseInt(SubSeq(f, 6, 7)) \in 1..12
    /\ ParseInt(SubSeq(f, 9, 10)) \in 1..31

\* C30: whenever the date of the Meeting is non-empty it is a well-formed calendar date
\* string YYYY-MM-DD, with a four-digit year, the month in 01..12 and the day in 01..31,
\* for every date text the dialect's weekday-date pattern accepts.
C30_DateWellFormed ==
    (pc = "done" /\ meeting.fecha # None) => WellFormedDate(meeting.fecha[1])

====
